---------------------------- MODULE Spec2Model ----------------------------
(***************************************************************************)
(* unplugin-deny-imports: the import graph, the trace builder, the pattern *)
(* engine, the directive detector and the resolveId / transform hooks of   *)
(* the three plugins returned by unpluginFactory.                          *)
(*                                                                         *)
(* A JavaScript string is a sequence of tokens (a token is a run of        *)
(* characters the program never looks inside: "root", "js", "use server")  *)
(* with the characters the program does look at ("/", ".", ":", the        *)
(* quotes, white space) as tokens of their own.                            *)
(***************************************************************************)
EXTENDS Integers, Sequences, FiniteSets, TLC


----------------------------------------------------------------------------
(* Strings *)

Drop(s, n) == SubSeq(s, n + 1, Len(s))

Take(s, n) == SubSeq(s, 1, n)

StartsWith(s, p) == Len(p) <= Len(s) /\ Take(s, Len(p)) = p

EndsWith(s, p) == Len(p) <= Len(s) /\ Drop(s, Len(s) - Len(p)) = p

Includes(s, p) == \E i \in 0..(Len(s) - Len(p)) : SubSeq(s, i + 1, i + Len(p)) = p

RECURSIVE SplitStr(_, _)
SplitStr(s, sep) ==
    IF \A i \in 1..Len(s) : s[i] # sep
    THEN <<s>>
    ELSE LET i == CHOOSE k \in 1..Len(s) : s[k] = sep /\ \A j \in 1..(k - 1) : s[j] # sep
         IN  <<Take(s, i - 1)>> \o SplitStr(Drop(s, i), sep)

RECURSIVE JoinStr(_, _)
JoinStr(parts, sep) ==
    IF Len(parts) = 0 THEN <<>>
    ELSE IF Len(parts) = 1 THEN parts[1]
    ELSE parts[1] \o <<sep>> \o JoinStr(Tail(parts), sep)

RECURSIVE Reverse(_)
Reverse(s) == IF Len(s) = 0 THEN <<>> ELSE Reverse(Tail(s)) \o <<s[1]>>

----------------------------------------------------------------------------
(* node:path, POSIX flavour *)

PathSep == "/"

IsAbsolute(p) == Len(p) > 0 /\ p[1] = "/"

\* the non-empty segments of a path
Segments(p) == SelectSeq(SplitStr(p, PathSep), LAMBDA seg : Len(seg) > 0)

RECURSIVE CommonPrefixLen(_, _)
CommonPrefixLen(a, b) ==
    IF Len(a) = 0 \/ Len(b) = 0 \/ a[1] # b[1] THEN 0
    ELSE 1 + CommonPrefixLen(Tail(a), Tail(b))

\* path.relative(from, to) for two absolute paths
PathRelative(from, to) ==
    LET f == Segments(from)
        t == Segments(to)
        n == CommonPrefixLen(f, t)
        ups == [i \in 1..(Len(f) - n) |-> <<"..">>]
    IN  JoinStr(ups \o Drop(t, n), PathSep)

\* variant: the path is left absolute
toRelativeIdentity(root, filePath) == filePath

toRelative(root, filePath) == JoinStr(SplitStr(PathRelative(root, filePath), PathSep), "/")

----------------------------------------------------------------------------
(* Patterns: Pattern = string | RegExp *)

GlobPattern(text) == [kind |-> "string", text |-> text]

RegExpPattern(source) == [kind |-> "regexp", source |-> source]

\* String(pattern), as interpolated into the diagnostic
PatternToString(p) ==
    IF p.kind = "string" THEN p.text ELSE <<"/">> \o p.source \o <<"/">>

\* tokens a wildcard never consumes inside a segment
NoWild == {"/", ".."}

\* micromatch.isMatch(s, g) for globs made of literals, "*" and "**"
RECURSIVE GlobMatch(_, _)
GlobMatch(s, g) ==
    IF Len(g) = 0 THEN Len(s) = 0
    ELSE IF g[1] = "**" THEN
        IF Len(g) = 1 THEN \A i \in 1..Len(s) : s[i] # ".."
        ELSE IF g[2] = "/" THEN
            \/ GlobMatch(s, Drop(g, 2))
            \/ \E i \in 1..Len(s) :
                /\ s[i] = "/"
                /\ \A j \in 1..(i - 1) : s[j] \notin NoWild
                /\ GlobMatch(Drop(s, i), g)
        ELSE FALSE
    ELSE IF g[1] = "*" THEN
        \E k \in 0..Len(s) :
            /\ \A j \in 1..k : s[j] \notin NoWild
            /\ GlobMatch(Drop(s, k), Tail(g))
    ELSE Len(s) > 0 /\ s[1] = g[1] /\ GlobMatch(Tail(s), Tail(g))

\* RegExp.prototype.test for a literal source with optional ^ and $ anchors
RegExpTest(s, source) ==
    LET head == Len(source) > 0 /\ source[1] = "^"
        rest == IF head THEN Tail(source) ELSE source
        tail == Len(rest) > 0 /\ rest[Len(rest)] = "$"
        body == IF tail THEN Take(rest, Len(rest) - 1) ELSE rest
    IN  IF head /\ tail THEN s = body
        ELSE IF head THEN StartsWith(s, body)
        ELSE IF tail THEN EndsWith(s, body)
        ELSE Includes(s, body)

PatternTest(id, p) ==
    IF p.kind = "string" THEN GlobMatch(id, p.text) ELSE RegExpTest(id, p.source)

\* an optional value of the options object: absent, or present with a value
None == [none |-> TRUE]

Some(v) == [some |-> v]

\* JavaScript null where a Pattern is expected
NoPattern == [kind |-> "null"]

\* variant: the last pattern that passes instead of the first
matchLast(id, patterns) ==
    IF patterns = None THEN NoPattern
    ELSE LET list == patterns.some
             hits == {i \in 1..Len(list) : PatternTest(id, list[i])}
         IN  IF hits = {} THEN NoPattern
             ELSE list[CHOOSE i \in hits : \A j \in hits : i >= j]

\* patterns.find(...) ?? null: the first pattern, in list order, that passes
match(id, patterns) ==
    IF patterns = None THEN NoPattern
    ELSE LET list == patterns.some
             hits == {i \in 1..Len(list) : PatternTest(id, list[i])}
         IN  IF hits = {} THEN NoPattern
             ELSE list[CHOOSE i \in hits : \A j \in hits : i <= j]

\* variant: only the last node of the trace, the importer, is tested
isIgnoredImporterOnly(trace, patterns) ==
    /\ Len(patterns) > 0
    /\ Len(trace) > 0
    /\ match(trace[Len(trace)].file, Some(patterns)) # NoPattern

isIgnored(trace, patterns) ==
    /\ Len(patterns) > 0
    /\ \E i \in 1..Len(trace) : match(trace[i].file, Some(patterns)) # NoPattern

----------------------------------------------------------------------------
(* Import graph: Map<string, ImportEdge[]>, a function whose domain is the *)
(* set of keys present in the map                                          *)

ImportEdge(importer, specifier) == [importer |-> importer, specifier |-> specifier]

EmptyGraph == [k \in {} |-> <<>>]

\* variant: the edge is pushed without looking for the importer
recordAlways(g, id, importer, specifier) ==
    LET g1 == IF id \in DOMAIN g THEN g ELSE g @@ (id :> <<>>)
    IN  [g1 EXCEPT ![id] = Append(g1[id], ImportEdge(importer, specifier))]

\* variant: the edge is put in front of the list
recordInFront(g, id, importer, specifier) ==
    LET g1 == IF id \in DOMAIN g THEN g ELSE g @@ (id :> <<>>)
        edges == g1[id]
    IN  IF \A i \in 1..Len(edges) : edges[i].importer # importer
        THEN [g1 EXCEPT ![id] = <<ImportEdge(importer, specifier)>> \o edges]
        ELSE g1

record(g, id, importer, specifier) ==
    LET g1 == IF id \in DOMAIN g THEN g ELSE g @@ (id :> <<>>)
        edges == g1[id]
    IN  IF \A i \in 1..Len(edges) : edges[i].importer # importer
        THEN [g1 EXCEPT ![id] = Append(edges, ImportEdge(importer, specifier))]
        ELSE g1

\* variant: the importer is pushed at the end of the trace instead of the front
RECURSIVE WalkAppend(_, _, _, _, _)
WalkAppend(g, trace, visited, current, maxDepth) ==
    IF ~(Len(current) > 0 /\ current \notin visited /\ Len(trace) < maxDepth)
    THEN trace
    ELSE IF current \notin DOMAIN g \/ Len(g[current]) = 0
    THEN trace
    ELSE LET edge == g[current][1]
         IN  WalkAppend(g,
                        trace \o <<[file |-> edge.importer, specifier |-> edge.specifier]>>,
                        visited \cup {current},
                        edge.importer,
                        maxDepth)

\* variant: the loop condition does not test the length of the trace
RECURSIVE WalkUnbounded(_, _, _, _, _)
WalkUnbounded(g, trace, visited, current, maxDepth) ==
    IF ~(Len(current) > 0 /\ current \notin visited)
    THEN trace
    ELSE IF current \notin DOMAIN g \/ Len(g[current]) = 0
    THEN trace
    ELSE LET edge == g[current][1]
         IN  WalkUnbounded(g,
                           <<[file |-> edge.importer, specifier |-> edge.specifier]>> \o trace,
                           visited \cup {current},
                           edge.importer,
                           maxDepth)

\* variant: the most recently recorded edge is followed
RECURSIVE WalkLastEdge(_, _, _, _, _)
WalkLastEdge(g, trace, visited, current, maxDepth) ==
    IF ~(Len(current) > 0 /\ current \notin visited /\ Len(trace) < maxDepth)
    THEN trace
    ELSE IF current \notin DOMAIN g \/ Len(g[current]) = 0
    THEN trace
    ELSE LET edge == g[current][Len(g[current])]
         IN  WalkLastEdge(g,
                          <<[file |-> edge.importer, specifier |-> edge.specifier]>> \o trace,
                          visited \cup {current},
                          edge.importer,
                          maxDepth)

\* variant: the loop condition does not look into visited
RECURSIVE WalkRevisiting(_, _, _, _, _)
WalkRevisiting(g, trace, visited, current, maxDepth) ==
    IF ~(Len(current) > 0 /\ Len(trace) < maxDepth)
    THEN trace
    ELSE IF current \notin DOMAIN g \/ Len(g[current]) = 0
    THEN trace
    ELSE LET edge == g[current][1]
         IN  WalkRevisiting(g,
                            <<[file |-> edge.importer, specifier |-> edge.specifier]>> \o trace,
                            visited \cup {current},
                            edge.importer,
                            maxDepth)

\* one evaluation of the while condition and, if it holds, of the loop body
RECURSIVE Walk(_, _, _, _, _)
Walk(g, trace, visited, current, maxDepth) ==
    IF ~(Len(current) > 0 /\ current \notin visited /\ Len(trace) < maxDepth)
    THEN trace
    ELSE IF current \notin DOMAIN g \/ Len(g[current]) = 0
    THEN trace
    ELSE LET edge == g[current][1]
         IN  Walk(g,
                  <<[file |-> edge.importer, specifier |-> edge.specifier]>> \o trace,
                  visited \cup {current},
                  edge.importer,
                  maxDepth)

\* variant: the walk is not made
buildTraceTargetOnly(g, target, maxDepth) == <<[file |-> target]>>

buildTrace(g, target, maxDepth) == Walk(g, <<[file |-> target]>>, {}, target, maxDepth)

\* variant: the map is left as it is
clearKeeps(g) == g

clear(g) == EmptyGraph

\* variant: the file's own entry is deleted and the other lists are left alone
invalidateTargetOnly(g, file) == [id \in DOMAIN g \ {file} |-> g[id]]

\* variant: a list that holds an edge imported by the file is emptied
invalidateDropLists(g, file) ==
    [id \in DOMAIN g \ {file} |->
        IF \E i \in 1..Len(g[id]) : g[id][i].importer = file THEN <<>> ELSE g[id]]

invalidate(g, file) ==
    [id \in DOMAIN g \ {file} |-> SelectSeq(g[id], LAMBDA e : e.importer # file)]

----------------------------------------------------------------------------
(* Directive detector *)

WhiteSpace == {" ", "\n"}

RECURSIVE TrimStart(_)
TrimStart(code) ==
    IF Len(code) > 0 /\ code[1] \in WhiteSpace THEN TrimStart(Tail(code)) ELSE code

NoDirective == "null"

\* variant: leading white space is not trimmed
getDirectiveNoTrim(code) ==
    IF StartsWith(code, <<"'", "use server", "'">>) \/ StartsWith(code, <<"\"", "use server", "\"">>)
    THEN "use server"
    ELSE IF StartsWith(code, <<"'", "use client", "'">>) \/ StartsWith(code, <<"\"", "use client", "\"">>)
    THEN "use client"
    ELSE NoDirective

getDirective(code) ==
    LET t == TrimStart(code)
    IN  IF StartsWith(t, <<"'", "use server", "'">>) \/ StartsWith(t, <<"\"", "use server", "\"">>)
        THEN "use server"
        ELSE IF StartsWith(t, <<"'", "use client", "'">>) \/ StartsWith(t, <<"\"", "use client", "\"">>)
        THEN "use client"
        ELSE NoDirective

----------------------------------------------------------------------------
(* Error formatting *)

ENV_EMOJI == [client |-> "(globe)", server |-> "(desktop)"]

SEPARATOR == "----------------------------------------"

PLUGIN_NAME == "unplugin-deny-imports"

\* fs.readFileSync(filePath, 'utf-8') of the files that can be read
FileSystem ==
    (<<"/", "root", "/", "app", "/", "a", ".", "js">> :>
        <<"import", " ", "'", ".", "/", "b", "'">>)
    @@
    (<<"/", "root", "/", "app", "/", "b", ".", "js">> :>
        <<"//", " ", "b", "\n", "import", " ", "\"", "denied", "\"">>)
    @@
    (<<"/", "root", "/", "app", "/", "entry", ".", "js">> :>
        <<"import", " ", "'", ".", "/", "a", "'", "\n",
          "import", " ", "'", ".", "/", "y", ".", "test", "'">>)
    @@
    (<<"/", "root", "/", "app", "/", "y", ".", "test", ".", "js">> :>
        <<"'", "use server", "'", "\n", "import", " ", "'", ".", "/", "act", "'">>)
    @@
    (<<"/", "root", "/", "app", "/", "act", ".", "js">> :>
        <<"\"", "use server", "\"", "\n", "export">>)

\* the 1-based number of the first import line naming the specifier; 0 is null
findImportLine(filePath, specifier) ==
    IF filePath \notin DOMAIN FileSystem THEN 0
    ELSE LET lines == SplitStr(FileSystem[filePath], "\n")
             hits == {i \in 1..Len(lines) :
                        /\ Includes(lines[i], <<"import">>) \/ Includes(lines[i], <<"require">>)
                        /\ \/ Includes(lines[i], <<"'">> \o specifier \o <<"'">>)
                           \/ Includes(lines[i], <<"\"">> \o specifier \o <<"\"">>)}
         IN  IF hits = {} THEN 0 ELSE CHOOSE i \in hits : \A j \in hits : i <= j

\* variant: the suffix goes to the first entry after the head line
renderTraceLinesFirstIsEntry(trace, denied, root) ==
    LET reversed == Reverse(trace)
        line(i) ==
            LET entry == reversed[i]
                relative == toRelative(root, entry.file)
                suffix == IF i = 1 THEN <<" (entry)">> ELSE <<>>
                lineNum == IF "specifier" \in DOMAIN entry /\ Len(entry.specifier) > 0
                           THEN findImportLine(entry.file, entry.specifier)
                           ELSE 0
                loc == IF lineNum # 0 THEN <<":", ToString(lineNum)>> ELSE <<>>
            IN  <<"  ", ToString(i + 1), ". ">> \o relative \o loc \o suffix
    IN  << <<"  ", "1", ". ", "(cross)", " ">> \o denied >>
        \o [i \in 1..Len(reversed) |-> line(i)]

\* the lines of the rendered trace, before lines.join('\n')
renderTraceLines(trace, denied, root) ==
    LET reversed == Reverse(trace)
        line(i) ==
            LET entry == reversed[i]
                relative == toRelative(root, entry.file)
                suffix == IF i = Len(reversed) THEN <<" (entry)">> ELSE <<>>
                lineNum == IF "specifier" \in DOMAIN entry /\ Len(entry.specifier) > 0
                           THEN findImportLine(entry.file, entry.specifier)
                           ELSE 0
                loc == IF lineNum # 0 THEN <<":", ToString(lineNum)>> ELSE <<>>
            IN  <<"  ", ToString(i + 1), ". ">> \o relative \o loc \o suffix
    IN  << <<"  ", "1", ". ", "(cross)", " ">> \o denied >>
        \o [i \in 1..Len(reversed) |-> line(i)]

renderTrace(trace, denied, root) == JoinStr(renderTraceLines(trace, denied, root), "\n")

\* [...].filter(Boolean): drops null (here <<>>, which also stands for '')
FilterBoolean(lines) == SelectSeq(lines, LAMBDA l : Len(l) > 0)

\* trace[trace.length - 1]?.file ?? resolvedPath ?? undefined; <<>> is absent
denyErrorId(trace, resolvedPath) ==
    IF Len(trace) > 0 THEN trace[Len(trace)].file ELSE resolvedPath

denyError(type, pattern, trace, importId, resolvedPath, env, root) ==
    LET formattedTrace == renderTrace(trace, importId, root)
        lines == <<
            <<"(no-entry)", " ", "Import Denied">>,
            <<ENV_EMOJI[env], " ", env, "  .  pattern: ">> \o PatternToString(pattern),
            IF type = "file" /\ Len(resolvedPath) > 0
                THEN <<"resolved: ">> \o toRelative(root, resolvedPath)
                ELSE <<>>,
            <<SEPARATOR>>,
            formattedTrace,
            <<SEPARATOR>> >>
    IN  [message |-> JoinStr(FilterBoolean(lines), "\n"),
         id |-> denyErrorId(trace, resolvedPath),
         plugin |-> PLUGIN_NAME]

directiveError(directive, filePath, trace, env, root) ==
    LET relativePath == toRelative(root, filePath)
        formattedTrace == renderTrace(trace, relativePath, root)
        lines == <<
            <<"(no-entry)", " ", "Directive Denied">>,
            <<ENV_EMOJI[env], " ", env, "  .  ", "\"", directive, "\"">>,
            <<"file: ">> \o relativePath,
            <<SEPARATOR>>,
            formattedTrace,
            <<SEPARATOR>> >>
    IN  [message |-> JoinStr(lines, "\n"),
         id |-> filePath,
         plugin |-> PLUGIN_NAME]

\* the Error object thrown by fail(info, showStack)
fail(info, showStack) ==
    [message |-> info.message,
     plugin |-> info.plugin,
     id |-> info.id,
     stack |-> IF showStack THEN "stack" ELSE ""]

\* the text handed to console.warn
warn(info) == <<"\n", "(warning)", "  [", info.plugin, "]", "\n">> \o info.message \o <<"\n">>

----------------------------------------------------------------------------
(* The modules, specifiers and sources of the build *)

Cwd == <<"/", "root">>

ProjectRoot == <<"/", "root", "/", "app">>

\* config.root of the vite project
Roots == {ProjectRoot}

FileA == <<"/", "root", "/", "app", "/", "a", ".", "js">>

FileB == <<"/", "root", "/", "app", "/", "b", ".", "js">>

FileTest == <<"/", "root", "/", "app", "/", "x", ".", "test", ".", "js">>

FileServer == <<"/", "root", "/", "app", "/", "u", ".", "server", ".", "js">>

FileHtml == <<"/", "root", "/", "app", "/", "index", ".", "html">>

FileEntry == <<"/", "root", "/", "app", "/", "entry", ".", "js">>

FileYTest == <<"/", "root", "/", "app", "/", "y", ".", "test", ".", "js">>

SpecDenied == <<"denied">>

SpecRelA == <<".", "/", "a">>

SpecRelYTest == <<".", "/", "y", ".", "test">>

FileAct == <<"/", "root", "/", "app", "/", "act", ".", "js">>

SpecRelAct == <<".", "/", "act">>

SpecRelB == <<".", "/", "b">>

\* importer === undefined (an entry module); '' is falsy in the same way
NoImporter == <<>>

\* resolved === null, or resolved.id === ''
NoId == <<>>

Ids == {SpecDenied, SpecRelB, FileB, FileServer}

Importers == {NoImporter, FileA, FileB, FileTest}

\* the importers the files hooks are called with: index.html imports too
FilesImporters == Importers \cup {FileHtml}

\* what this.resolve(id, importer, { skipSelf: true }) can resolve to
HostResolve(id) ==
    IF id = SpecDenied THEN {NoId, SpecDenied}
    ELSE IF id = SpecRelB THEN {FileB}
    ELSE IF id = SpecRelA THEN {FileA}
    ELSE IF id = SpecRelYTest THEN {FileYTest}
    ELSE IF id = SpecRelAct THEN {FileAct}
    ELSE {id}

\* every id this.resolve can settle with
Resolved == UNION {HostResolve(id) : id \in Ids}

Codes == {
    <<"'", "use server", "'", "\n", "export">>,
    <<"\n", " ", "\"", "use server", "\"">>,
    <<"\"", "use client", "\"">>,
    <<" ", "'", "use client", "'">>,
    <<"export", "\n", "'", "use server", "'">>,
    <<"'", "use server", "\"">> }

TransformIds == {FileB}

\* the files the dev server reports as changed
HotFiles == {FileB}

----------------------------------------------------------------------------
(* Options *)

EnvOptions(specifiers, files) ==
    IF specifiers = None /\ files = None THEN None
    ELSE Some([specifiers |-> specifiers, files |-> files])

PatDenied == GlobPattern(<<"denied">>)

PatDeniedRe == RegExpPattern(<<"^", "denied">>)

PatServerFiles == GlobPattern(<<"**", "/", "*", ".", "server", ".", "*">>)

PatTestFiles == GlobPattern(<<"**", "/", "*", ".", "test", ".", "*">>)

Options(client, server, ignoreImporters, maxDepthOpt, directives, target, modeOpt) ==
    [client |-> client,
     server |-> server,
     ignoreImporters |-> ignoreImporters,
     maxDepth |-> maxDepthOpt,
     directives |-> directives,
     target |-> target,
     mode |-> modeOpt,
     stack |-> None]

\* the client and server rules a build is configured with
RuleSets == {
    <<None, None>>,
    <<EnvOptions(Some(<<PatDenied, PatDeniedRe>>), Some(<<PatServerFiles>>)), None>>,
    <<EnvOptions(Some(<<>>), None),
      EnvOptions(Some(<<PatDeniedRe, PatDenied>>), Some(<<PatServerFiles>>))>> }

\* builds configured with rules (directive enforcement left at its default)
\* and builds configured for directive enforcement alone
OptionsSet ==
    { Options(r[1], r[2], ign, md, None, tgt, mo) :
        r \in RuleSets \ {<<None, None>>},
        ign \in {None, Some(<<PatTestFiles>>)},
        md \in {None, Some(1)},
        tgt \in {None, Some("server")},
        mo \in {None, Some("warn")} }
    \cup
    { Options(None, None, None, None, dir, tgt, mo) :
        dir \in {None, Some(TRUE), Some(FALSE)},
        tgt \in {None, Some("client"), Some("server")},
        mo \in {None, Some("error"), Some("warn")} }

----------------------------------------------------------------------------
(* Plugin instance: unpluginFactory(options) *)

VARIABLES
    options,      \* the options object the factory was called with
    framework,    \* "vite": the vite hooks are installed; "rollup": the fallback hooks
    phase,        \* "setup", "ready" once vite has resolved its config, then "build"
    root,         \* let root
    isSsrBuild,   \* let isSsrBuild
    graph,        \* const graph = createGraph()
    resolving,    \* const resolving = new Set<string>()
    inflight,     \* calls of filesPlugin.vite.resolveId suspended at await this.resolve
    last,         \* the hook call that is returning to the host, and how it ended
    console,      \* the texts console.warn was called with since buildStart, if captured
    arrivals,     \* the build hooks the host has called, in order of call, if logged
    probe         \* a direct call of one of the pure functions: arguments and result

vars ==
    <<options, framework, phase, root, isSsrBuild, graph, resolving, inflight, last, console,
      arrivals, probe>>

\* what the hooks read but never write
setup == <<options, framework, phase, root, isSsrBuild, probe>>

MaxInFlight == 2

MaxEdges == 1

MaxWarnings == 2

MaxArrivals == 4

DefaultMaxDepth == 15

\* variant: the client list whatever the context
specifiersClient(env) ==
    IF options.client = None THEN None ELSE options.client.some.specifiers

specifiers(env) == IF options[env] = None THEN None ELSE options[env].some.specifiers

files(env) == IF options[env] = None THEN None ELSE options[env].some.files

ignoreImporters == IF options.ignoreImporters = None THEN <<>> ELSE options.ignoreImporters.some

maxDepth == IF options.maxDepth = None THEN DefaultMaxDepth ELSE options.maxDepth.some

\* variant: the option is not read
enforceDirectivesAlways == TRUE

enforceDirectives == IF options.directives = None THEN TRUE ELSE options.directives.some

explicitTarget == options.target

\* variant: warn is the default
modeWarnDefault == IF options.mode = None THEN "warn" ELSE options.mode.some

mode == IF options.mode = None THEN "error" ELSE options.mode.some

showStack == IF options.stack = None THEN FALSE ELSE options.stack.some

NoError == None

\* a hook call: the hook, its arguments and, for the files hooks, the absolute
\* path the specifier was resolved to in this call (NoId if it was not)
Call(hook, id, importer, ssr, code) ==
    [hook |-> hook, id |-> id, importer |-> importer, ssr |-> ssr, code |-> code,
     resolved |-> NoId]

ResolvedTo(call, resolvedId) == [call EXCEPT !.resolved = resolvedId]

NoWarning == <<>>

\* the hook returned null, having passed `warning` to console.warn (if any)
Returned(call, env, warning) ==
    [call |-> call, env |-> env, outcome |-> "null", error |-> NoError, warning |-> warning]

\* the hook threw err
Thrown(call, env, err) ==
    [call |-> call, env |-> env, outcome |-> "throw", error |-> err, warning |-> NoWarning]

EdgeCount(g) ==
    LET RECURSIVE Sum(_)
        Sum(S) == IF S = {} THEN 0
                  ELSE LET k == CHOOSE x \in S : TRUE IN Len(g[k]) + Sum(S \ {k})
    IN  Sum(DOMAIN g)

NoProbe == [fn |-> "none"]

\* console.warn is the host's console: its calls are seen only when captured
NotCaptured == [captured |-> FALSE]

\* the captured console and the texts console.warn was called with
Captured(calls) == [captured |-> TRUE, calls |-> calls]

\* the host's calls are seen only when logged
NotLogged == [logged |-> FALSE]

\* the log of the host's calls
Logged(calls) == [logged |-> TRUE, calls |-> calls]

\* no hook call is returning to the host
NoCall == Returned(Call("none", NoId, NoImporter, FALSE, <<>>), "none", NoWarning)

\* variant: the target option does not reach isSsrBuild
targetIsServerNever == FALSE

\* explicitTarget === 'server', the initial value of isSsrBuild
targetIsServer == explicitTarget = Some("server")

Init ==
    /\ options \in OptionsSet
    /\ framework \in {"vite", "rollup"}
    /\ phase = "setup"
    /\ root = Cwd
    /\ isSsrBuild = targetIsServer
    /\ graph = EmptyGraph
    /\ resolving = {}
    /\ inflight = {}
    /\ last = NoCall
    /\ console = NotCaptured
    /\ arrivals = NotLogged
    /\ probe = NoProbe

\* the host calls a hook
Arrive(call) ==
    arrivals' = IF arrivals.logged THEN Logged(Append(arrivals.calls, call)) ELSE arrivals

\* the logged calls of the host
Arrivals == IF arrivals.logged THEN arrivals.calls ELSE <<>>

\* the host has made fewer than MaxArrivals calls
HostMayCall == Len(Arrivals) < MaxArrivals

\* the graph is as large as a host that is not logged may make it
EdgeRoom(g) == arrivals.logged \/ EdgeCount(g) <= MaxEdges

\* return null without a diagnostic
Pass(call, env) ==
    /\ last' = Returned(call, env, NoWarning)
    /\ console' = console

\* console.warn(text)
ConsoleWarn(text) ==
    IF ~console.captured THEN console' = console
    ELSE /\ Len(console.calls) < MaxWarnings
         /\ console' = Captured(Append(console.calls, text))

\* variant: the mode option is not read and every denial throws
denyAlwaysFails(call, env, info) ==
    /\ last' = Thrown(call, env, fail(info, showStack))
    /\ console' = console

\* deny(info), followed by the hook's return null when deny returns
deny(call, env, info) ==
    IF mode = "warn"
    THEN /\ last' = Returned(call, env, warn(info))
         /\ ConsoleWarn(warn(info))
    ELSE /\ last' = Thrown(call, env, fail(info, showStack))
         /\ console' = console

----------------------------------------------------------------------------
(* Host lifecycle hooks *)

\* vite.config(_config, env) of specifiersPlugin and filesPlugin
ViteConfig(envIsSsrBuild) ==
    /\ framework = "vite"
    /\ phase = "setup"
    /\ last = NoCall
    /\ isSsrBuild' = IF explicitTarget = None THEN envIsSsrBuild ELSE isSsrBuild
    /\ UNCHANGED <<probe, options, framework, phase, root, graph, resolving, inflight, last,
                   console, arrivals>>

\* vite.configResolved(config) of the three plugins
ViteConfigResolved(configRoot) ==
    /\ framework = "vite"
    /\ phase = "setup"
    /\ last = NoCall
    /\ root' = configRoot
    /\ phase' = "ready"
    /\ UNCHANGED <<probe, options, framework, isSsrBuild, graph, resolving, inflight, last,
                   console, arrivals>>

\* specifiersPlugin.buildStart
BuildStart ==
    /\ framework = "vite" => phase # "setup"
    /\ inflight = {}
    /\ last = NoCall
    /\ graph' = clear(graph)
    /\ resolving' = {}
    /\ phase' = "build"
    /\ console' = IF console.captured THEN Captured(<<>>) ELSE console
    /\ Arrive(Call("buildStart", NoId, NoImporter, FALSE, <<>>))
    /\ UNCHANGED <<probe, options, framework, root, isSsrBuild, inflight, last>>

\* filesPlugin.vite.handleHotUpdate({ file })
HandleHotUpdate(file) ==
    /\ framework = "vite"
    /\ phase = "build"
    /\ last = NoCall
    /\ graph' = invalidate(graph, file)
    /\ Arrive(Call("handleHotUpdate", file, NoImporter, FALSE, <<>>))
    /\ UNCHANGED <<setup, resolving, inflight, last, console>>

----------------------------------------------------------------------------
(* specifiersPlugin *)

\* variant: the importer is not tested before the patterns are
SpecifiersCheckAnyImporter(call, env) ==
    LET id == call.id
        importer == call.importer
        patterns == specifiers(env)
        denied == match(id, patterns)
        trace == buildTrace(graph, importer, maxDepth)
    IN  IF denied # NoPattern /\ ~isIgnored(trace, ignoreImporters)
        THEN deny(call, env, denyError("specifier", denied, trace, id, NoId, env, root))
        ELSE Pass(call, env)

\* the body shared by the two resolveId hooks once env is known
SpecifiersCheck(call, env) ==
    LET id == call.id
        importer == call.importer
        patterns == specifiers(env)
        denied == match(id, patterns)
        trace == buildTrace(graph, importer, maxDepth)
    IN  IF importer = NoImporter THEN Pass(call, "none")
        ELSE IF denied # NoPattern /\ ~isIgnored(trace, ignoreImporters)
        THEN deny(call, env, denyError("specifier", denied, trace, id, NoId, env, root))
        ELSE Pass(call, env)

\* specifiersPlugin.vite.resolveId(id, importer, opts)
\* variant: the specifiers hook records the import it is asked about
SpecifiersViteResolveIdRecording(id, importer, ssr) ==
    LET recorded == record(graph, id, importer, id)
    IN  /\ framework = "vite"
        /\ phase = "build"
        /\ last = NoCall
        /\ SpecifiersCheck(Call("specifiers.vite.resolveId", id, importer, ssr, <<>>),
                           IF ssr THEN "server" ELSE "client")
        /\ Arrive(Call("specifiers.vite.resolveId", id, importer, ssr, <<>>))
        /\ graph' = IF importer # NoImporter /\ EdgeRoom(recorded) THEN recorded ELSE graph
        /\ UNCHANGED <<setup, resolving, inflight>>

SpecifiersViteResolveId(id, importer, ssr) ==
    /\ framework = "vite"
    /\ phase = "build"
    /\ last = NoCall
    /\ SpecifiersCheck(Call("specifiers.vite.resolveId", id, importer, ssr, <<>>),
                       IF ssr THEN "server" ELSE "client")
    /\ Arrive(Call("specifiers.vite.resolveId", id, importer, ssr, <<>>))
    /\ UNCHANGED <<setup, graph, resolving, inflight>>

\* specifiersPlugin.resolveId(id, importer)
SpecifiersResolveId(id, importer) ==
    /\ framework # "vite"
    /\ phase = "build"
    /\ last = NoCall
    /\ SpecifiersCheck(Call("specifiers.resolveId", id, importer, FALSE, <<>>),
                       IF isSsrBuild THEN "server" ELSE "client")
    /\ Arrive(Call("specifiers.resolveId", id, importer, FALSE, <<>>))
    /\ UNCHANGED <<setup, graph, resolving, inflight>>

----------------------------------------------------------------------------
(* filesPlugin *)

HtmlSuffix == <<".", "html">>

\* `${id}:${importer}`
resolveKey(id, importer) ==
    id \o <<":">> \o (IF importer = NoImporter THEN <<"undefined">> ELSE importer)

\* variant: the file rule is evaluated first and the edge recorded afterwards,
\* so that a thrown denial leaves no edge
FilesViteSettledCheckFirst(call, resolvedId) ==
    LET id == call.id
        importer == call.importer
        env == IF call.ssr THEN "server" ELSE "client"
        recorded == IF importer # NoImporter
                    THEN record(graph, resolvedId, importer, id)
                    ELSE graph
        relativePath == toRelative(root, resolvedId)
        denied == match(relativePath, files(env))
        trace == IF importer # NoImporter
                 THEN buildTrace(graph, importer, maxDepth)
                 ELSE <<>>
    IN  /\ resolvedId \in HostResolve(id)
        /\ IF resolvedId = NoId \/ ~IsAbsolute(resolvedId)
           THEN /\ Pass(call, "none")
                /\ graph' = graph
           ELSE /\ EdgeRoom(recorded)
                /\ IF denied # NoPattern /\ ~isIgnored(trace, ignoreImporters)
                   THEN /\ deny(ResolvedTo(call, resolvedId), env,
                                denyError("file", denied, trace, id, resolvedId, env, root))
                        /\ graph' = IF mode = "warn" THEN recorded ELSE graph
                   ELSE /\ Pass(ResolvedTo(call, resolvedId), env)
                        /\ graph' = recorded

\* filesPlugin.vite.resolveId from the point this.resolve settles with
\* resolvedId up to the return or throw inside the try block
FilesViteSettled(call, resolvedId) ==
    LET id == call.id
        importer == call.importer
        env == IF call.ssr THEN "server" ELSE "client"
        recorded == IF importer # NoImporter
                    THEN record(graph, resolvedId, importer, id)
                    ELSE graph
        relativePath == toRelative(root, resolvedId)
        denied == match(relativePath, files(env))
        trace == IF importer # NoImporter
                 THEN buildTrace(recorded, importer, maxDepth)
                 ELSE <<>>
    IN  /\ resolvedId \in HostResolve(id)
        /\ IF resolvedId = NoId \/ ~IsAbsolute(resolvedId)
           THEN /\ Pass(call, "none")
                /\ graph' = graph
           ELSE /\ EdgeRoom(recorded)
                /\ graph' = recorded
                /\ IF denied # NoPattern /\ ~isIgnored(trace, ignoreImporters)
                   THEN deny(ResolvedTo(call, resolvedId), env,
                             denyError("file", denied, trace, id, resolvedId, env, root))
                   ELSE Pass(ResolvedTo(call, resolvedId), env)

\* filesPlugin.vite.resolveId(id, importer, opts) when this.resolve settles with
\* resolvedId before the host runs any other hook
FilesViteResolveId(id, importer, ssr, resolvedId) ==
    LET call == Call("files.vite.resolveId", id, importer, ssr, <<>>)
        key == resolveKey(id, importer)
    IN  /\ framework = "vite"
        /\ phase = "build"
        /\ last = NoCall
        /\ inflight = {}
        /\ IF EndsWith(importer, HtmlSuffix) \/ key \in resolving
           THEN /\ Pass(call, "none")
                /\ UNCHANGED <<graph, resolving>>
           ELSE /\ FilesViteSettled(call, resolvedId)
                /\ resolving' = (resolving \cup {key}) \ {key}
        /\ Arrive(call)
        /\ UNCHANGED <<setup, inflight>>

\* filesPlugin.vite.resolveId up to the await: returns null at once, or adds
\* its key to resolving and is suspended in this.resolve
FilesViteResolveIdBegin(id, importer, ssr) ==
    LET call == Call("files.vite.resolveId", id, importer, ssr, <<>>)
        key == resolveKey(id, importer)
    IN  /\ framework = "vite"
        /\ phase = "build"
        /\ last = NoCall
        /\ IF EndsWith(importer, HtmlSuffix) \/ key \in resolving
           THEN /\ Pass(call, "none")
                /\ UNCHANGED <<resolving, inflight>>
           ELSE /\ Cardinality(inflight) < MaxInFlight
                /\ resolving' = resolving \cup {key}
                /\ inflight' = inflight \cup {call}
                /\ UNCHANGED <<last, console>>
        /\ Arrive(call)
        /\ UNCHANGED <<setup, graph>>

\* the suspended call resumes when this.resolve settles with resolvedId, and
\* runs to the end of the finally block
FilesViteResolveIdEnd(call, resolvedId) ==
    /\ call \in inflight
    /\ last = NoCall
    /\ inflight' = inflight \ {call}
    /\ FilesViteSettled(call, resolvedId)
    /\ resolving' = resolving \ {resolveKey(call.id, call.importer)}
    /\ UNCHANGED <<setup, arrivals>>

\* the error this.resolve rejects with when the host fails to resolve
HostError == [message |-> <<"host">>, plugin |-> "host", id |-> NoId, stack |-> "stack"]

\* variant: the rejection propagates without the finally block
FilesViteResolveIdRejectNoFinally(call) ==
    /\ call \in inflight
    /\ last = NoCall
    /\ inflight' = inflight \ {call}
    /\ resolving' = resolving
    /\ last' = Thrown(call, "none", HostError)
    /\ UNCHANGED <<setup, graph, console, arrivals>>

\* filesPlugin.vite.resolveId when this.resolve rejects: the finally block runs
\* and the rejection propagates
FilesViteResolveIdReject(call) ==
    /\ call \in inflight
    /\ last = NoCall
    /\ inflight' = inflight \ {call}
    /\ resolving' = resolving \ {resolveKey(call.id, call.importer)}
    /\ last' = Thrown(call, "none", HostError)
    /\ UNCHANGED <<setup, graph, console, arrivals>>

\* filesPlugin.resolveId(id, importer): no await, so it runs to completion
FilesResolveId(id, importer) ==
    LET call == Call("files.resolveId", id, importer, FALSE, <<>>)
        key == resolveKey(id, importer)
        env == IF isSsrBuild THEN "server" ELSE "client"
        recorded == IF IsAbsolute(id) THEN record(graph, id, importer, id) ELSE graph
        relativePath == toRelative(root, id)
        denied == match(relativePath, files(env))
        trace == buildTrace(recorded, importer, maxDepth)
    IN  /\ framework # "vite"
        /\ phase = "build"
        /\ last = NoCall
        /\ IF importer = NoImporter \/ EndsWith(importer, HtmlSuffix) \/ key \in resolving
           THEN /\ Pass(call, "none")
                /\ UNCHANGED <<graph, resolving>>
           ELSE /\ EdgeRoom(recorded)
                /\ graph' = recorded
                /\ resolving' = resolving \ {key}
                /\ IF IsAbsolute(id) /\ denied # NoPattern
                      /\ ~isIgnored(trace, ignoreImporters)
                   THEN deny(ResolvedTo(call, id), env,
                             denyError("file", denied, trace, id, id, env, root))
                   ELSE Pass(ResolvedTo(call, IF IsAbsolute(id) THEN id ELSE NoId), env)
        /\ Arrive(call)
        /\ UNCHANGED <<setup, inflight>>

----------------------------------------------------------------------------
(* directivePlugin *)

\* variant: "use client" is invalid in server context as well
invalidSymmetric(directive, isServer) ==
    \/ directive = "use server" /\ ~isServer
    \/ directive = "use client" /\ isServer

\* const invalid = directive === 'use server' && !isServer
invalid(directive, isServer) == directive = "use server" /\ ~isServer

\* variant: the denial is dropped when the trace of the module is ignored
DirectiveViteTransformIgnoring(code, id, ssr) ==
    LET call == Call("directive.vite.transform", id, NoImporter, ssr, code)
        directive == getDirective(code)
        isServer == ssr
        env == IF isServer THEN "server" ELSE "client"
        trace == buildTrace(graph, id, maxDepth)
    IN  /\ framework = "vite"
        /\ phase = "build"
        /\ last = NoCall
        /\ IF ~enforceDirectives \/ directive = NoDirective THEN Pass(call, "none")
           ELSE IF invalid(directive, isServer) /\ ~isIgnored(trace, ignoreImporters)
           THEN deny(call, env, directiveError(directive, id, trace, env, root))
           ELSE Pass(call, env)
        /\ Arrive(call)
        /\ UNCHANGED <<setup, graph, resolving, inflight>>

\* directivePlugin.vite.transform(code, id, options)
DirectiveViteTransform(code, id, ssr) ==
    LET call == Call("directive.vite.transform", id, NoImporter, ssr, code)
        directive == getDirective(code)
        isServer == ssr
        env == IF isServer THEN "server" ELSE "client"
    IN  /\ framework = "vite"
        /\ phase = "build"
        /\ last = NoCall
        /\ IF ~enforceDirectives \/ directive = NoDirective THEN Pass(call, "none")
           ELSE IF invalid(directive, isServer)
           THEN deny(call, env,
                     directiveError(directive, id, buildTrace(graph, id, maxDepth), env, root))
           ELSE Pass(call, env)
        /\ Arrive(call)
        /\ UNCHANGED <<setup, graph, resolving, inflight>>

\* directivePlugin.transform(code, id)
DirectiveTransform(code, id) ==
    LET call == Call("directive.transform", id, NoImporter, FALSE, code)
        directive == getDirective(code)
    IN  /\ framework # "vite"
        /\ phase = "build"
        /\ last = NoCall
        /\ IF ~enforceDirectives \/ directive = NoDirective THEN Pass(call, "none")
           ELSE IF invalid(directive, isSsrBuild)
           THEN deny(call, "client",
                     directiveError(directive, id, buildTrace(graph, id, maxDepth),
                                    "client", root))
           ELSE Pass(call, IF isSsrBuild THEN "server" ELSE "client")
        /\ Arrive(call)
        /\ UNCHANGED <<setup, graph, resolving, inflight>>

----------------------------------------------------------------------------

\* the hook call has returned or thrown and the host goes on with the build
HostContinue ==
    /\ last # NoCall
    /\ last' = NoCall
    /\ UNCHANGED <<setup, graph, resolving, inflight, console, arrivals>>

Next ==
    \/ \E b \in BOOLEAN : ViteConfig(b)
    \/ \E r \in Roots : ViteConfigResolved(r)
    \/ BuildStart
    \/ \E f \in HotFiles : HandleHotUpdate(f)
    \/ \E id \in Ids, importer \in Importers, ssr \in BOOLEAN :
          SpecifiersViteResolveId(id, importer, ssr)
    \/ \E id \in Ids, importer \in Importers : SpecifiersResolveId(id, importer)
    \/ \E id \in Ids, importer \in FilesImporters, ssr \in BOOLEAN, resolvedId \in Resolved :
          FilesViteResolveId(id, importer, ssr, resolvedId)
    \/ \E id \in Ids, importer \in FilesImporters : FilesResolveId(id, importer)
    \/ \E code \in Codes, id \in TransformIds, ssr \in BOOLEAN :
          DirectiveViteTransform(code, id, ssr)
    \/ \E code \in Codes, id \in TransformIds : DirectiveTransform(code, id)
    \/ HostContinue

Spec == Init /\ [][Next]_vars

----------------------------------------------------------------------------
(* match called directly on a candidate and a pattern list *)

MaxPatterns == 2

MatchCandidates == {<<"a">>, <<"b", "a">>, SpecDenied, <<"denied", "/", "x">>}

MatchPatterns ==
    {GlobPattern(<<"a">>), RegExpPattern(<<"a">>), PatDenied, PatDeniedRe, GlobPattern(<<"*">>)}

RECURSIVE ListsUpTo(_, _)
ListsUpTo(S, n) ==
    IF n = 0 THEN {<<>>}
    ELSE LET shorter == ListsUpTo(S, n - 1)
         IN  shorter \cup {Append(l, x) : l \in shorter, x \in S}

MatchLists == {None} \cup {Some(l) : l \in ListsUpTo(MatchPatterns, MaxPatterns)}

Idle ==
    /\ options = Options(None, None, None, None, None, None, None)
    /\ framework = "rollup"
    /\ phase = "setup"
    /\ root = Cwd
    /\ isSsrBuild = FALSE
    /\ graph = EmptyGraph
    /\ resolving = {}
    /\ inflight = {}
    /\ last = NoCall
    /\ console = NotCaptured
    /\ arrivals = NotLogged

InitMatch ==
    /\ Idle
    /\ probe \in {[fn |-> "match", id |-> c, patterns |-> ps, done |-> FALSE,
                   result |-> NoPattern] : c \in MatchCandidates, ps \in MatchLists}

\* const denied = match(id, patterns)
CallMatch ==
    /\ probe.fn = "match"
    /\ ~probe.done
    /\ probe' = [probe EXCEPT !.done = TRUE, !.result = match(probe.id, probe.patterns)]
    /\ UNCHANGED <<options, framework, phase, root, isSsrBuild, graph, resolving, inflight, last,
                   console, arrivals>>

NextMatch == CallMatch

SpecMatch == InitMatch /\ [][NextMatch]_vars

----------------------------------------------------------------------------
(* The import graph called directly: const graph = createGraph() and its  *)
(* methods record, buildTrace, invalidate and clear                       *)

FileC == <<"/", "root", "/", "app", "/", "c", ".", "js">>

FileDenied == <<"/", "root", "/", "app", "/", "denied", ".", "js">>

SpecRelC == <<".", "/", "c">>

SpecRelDenied == <<".", "/", "denied">>

SpecRelEntry == <<".", "/", "entry">>

SpecAliasB == <<"@", "/", "b">>

GraphNodes == {FileEntry, FileA, FileB, FileC, FileDenied}

\* the imports record is called for, <<id, importer, specifier>>: the chain
\* entry.js -> a.js -> b.js -> c.js -> denied.js, a second importer of c.js,
\* an import that closes a cycle and a second spelling of a.js's import of b.js
Imports == {
    <<FileA, FileEntry, SpecRelA>>,
    <<FileB, FileA, SpecRelB>>,
    <<FileC, FileB, SpecRelC>>,
    <<FileDenied, FileC, SpecRelDenied>>,
    <<FileC, FileA, SpecRelC>>,
    <<FileEntry, FileC, SpecRelEntry>>,
    <<FileB, FileA, SpecAliasB>> }

MaxDepthArg == 6

\* the maxDepth arguments buildTrace is called with
Depths == (0 - 1)..MaxDepthArg

InitGraph ==
    /\ Idle
    /\ probe = NoProbe

\* graph.record(id, importer, specifier)
GraphRecord(id, importer, specifier) ==
    /\ graph' = record(graph, id, importer, specifier)
    /\ probe' = [fn |-> "record", id |-> id, importer |-> importer,
                 specifier |-> specifier, before |-> graph]
    /\ UNCHANGED <<options, framework, phase, root, isSsrBuild, resolving, inflight, last,
                   console, arrivals>>

\* graph.buildTrace(target, maxDepth)
GraphBuildTrace(target, depth) ==
    /\ probe' = [fn |-> "buildTrace", target |-> target, maxDepth |-> depth,
                 result |-> buildTrace(graph, target, depth), before |-> graph]
    /\ UNCHANGED <<options, framework, phase, root, isSsrBuild, graph, resolving, inflight,
                   last, console, arrivals>>

\* graph.invalidate(file)
GraphInvalidate(file) ==
    /\ graph' = invalidate(graph, file)
    /\ probe' = [fn |-> "invalidate", file |-> file, before |-> graph]
    /\ UNCHANGED <<options, framework, phase, root, isSsrBuild, resolving, inflight, last,
                   console, arrivals>>

\* graph.clear()
GraphClear ==
    /\ graph' = clear(graph)
    /\ probe' = [fn |-> "clear", before |-> graph]
    /\ UNCHANGED <<options, framework, phase, root, isSsrBuild, resolving, inflight, last,
                   console, arrivals>>

NextGraph ==
    \/ \E e \in Imports : GraphRecord(e[1], e[2], e[3])
    \/ \E target \in GraphNodes, depth \in Depths : GraphBuildTrace(target, depth)
    \/ \E file \in GraphNodes : GraphInvalidate(file)
    \/ GraphClear

SpecGraph == InitGraph /\ [][NextGraph]_vars

----------------------------------------------------------------------------
(* A vite build with the console captured: the files hook is suspended at  *)
(* await this.resolve, and other hook calls run before it resumes          *)

BuildIds == {SpecDenied, FileServer}

BuildImporters == {FileA, FileTest}

BuildOptionsSet ==
    { Options(EnvOptions(Some(<<PatDenied>>), Some(<<PatServerFiles>>)),
              None, ign, None, None, None, mo) :
      ign \in {None, Some(<<PatTestFiles>>)}, mo \in {None, Some("warn")} }

InitBuild ==
    /\ options \in BuildOptionsSet
    /\ framework = "vite"
    /\ phase = "setup"
    /\ root = Cwd
    /\ isSsrBuild = targetIsServer
    /\ graph = EmptyGraph
    /\ resolving = {}
    /\ inflight = {}
    /\ last = NoCall
    /\ console = Captured(<<>>)
    /\ arrivals = Logged(<<>>)
    /\ probe = NoProbe

NextBuild ==
    \/ \E r \in Roots : ViteConfigResolved(r)
    \/ HostMayCall /\ BuildStart
    \/ \E id \in BuildIds, importer \in BuildImporters :
          HostMayCall /\ SpecifiersViteResolveId(id, importer, FALSE)
    \/ \E id \in BuildIds, importer \in BuildImporters :
          HostMayCall /\ FilesViteResolveIdBegin(id, importer, FALSE)
    \/ \E call \in inflight, resolvedId \in Resolved : FilesViteResolveIdEnd(call, resolvedId)
    \/ \E call \in inflight : FilesViteResolveIdReject(call)
    \/ HostContinue

SpecBuild == InitBuild /\ [][NextBuild]_vars

----------------------------------------------------------------------------
(* A vite build that resolves the imports of a file and of a module another *)
(* plugin provides under a prefixed id, some of them by prefixed specifiers *)

SpecVirtual == <<"virtual">>

SpecVirtualRaw == <<"virtual", ":", "raw">>

\* the id of the module a plugin provides for the raw text of a.js
RawFileA == <<"raw", ":">> \o FileA

GuardIds == {SpecVirtual, SpecVirtualRaw}

GuardImporters == {FileA, RawFileA}

NextGuard ==
    \/ \E r \in Roots : ViteConfigResolved(r)
    \/ HostMayCall /\ BuildStart
    \/ \E id \in GuardIds, importer \in GuardImporters :
          HostMayCall /\ FilesViteResolveIdBegin(id, importer, FALSE)
    \/ \E call \in inflight : \E resolvedId \in HostResolve(call.id) :
          FilesViteResolveIdEnd(call, resolvedId)
    \/ \E call \in inflight : FilesViteResolveIdReject(call)
    \/ HostContinue

SpecGuard == InitBuild /\ [][NextGuard]_vars

----------------------------------------------------------------------------
(* One build of the project in FileSystem by a host that works top-down: it *)
(* resolves the imports of a module once the module is loaded, asks the     *)
(* plugins in their order for each import, and stops at the first error     *)

\* the import statements of the project and the entry, with what they resolve to
ProjectImports == {
    [id |-> FileEntry, importer |-> NoImporter, target |-> FileEntry],
    [id |-> SpecRelA, importer |-> FileEntry, target |-> FileA],
    [id |-> SpecRelYTest, importer |-> FileEntry, target |-> FileYTest],
    [id |-> SpecRelB, importer |-> FileA, target |-> FileB],
    [id |-> SpecRelAct, importer |-> FileYTest, target |-> FileAct],
    [id |-> SpecDenied, importer |-> FileB, target |-> NoId] }

ProjectOptionsSet ==
    { Options(EnvOptions(Some(<<PatDenied>>), None), None, ign, None, None, None, mo) :
      ign \in {None, Some(<<PatTestFiles>>)}, mo \in {None, Some("warn")} }

\* the host has called one of the hooks for the import
Called(hooks, imp) ==
    \E k \in 1..Len(Arrivals) :
        /\ Arrivals[k].hook \in hooks
        /\ Arrivals[k].id = imp.id
        /\ Arrivals[k].importer = imp.importer

\* the host has loaded the module and handed its code to the transform hook
Loaded(file) ==
    \E k \in 1..Len(Arrivals) :
        /\ Arrivals[k].hook \in {"directive.vite.transform", "directive.transform"}
        /\ Arrivals[k].id = file

\* specifiersPlugin has passed the import on and filesPlugin is next
MayResolveFile(imp) ==
    /\ Called({"specifiers.vite.resolveId", "specifiers.resolveId"}, imp)
    /\ ~Called({"files.vite.resolveId", "files.resolveId"}, imp)

\* the import is of a loaded module, or is the entry, and is not yet resolved;
\* the host takes up one import at a time
MayResolve(imp) ==
    /\ imp.importer = NoImporter \/ Loaded(imp.importer)
    /\ ~Called({"specifiers.vite.resolveId", "specifiers.resolveId"}, imp)
    /\ \A other \in ProjectImports : ~MayResolveFile(other)

\* an import has been resolved to the file, which is not loaded yet
MayLoad(file) ==
    /\ ~Loaded(file)
    /\ \A other \in ProjectImports : ~MayResolveFile(other)
    /\ \E imp \in ProjectImports :
          imp.target = file /\ Called({"files.vite.resolveId", "files.resolveId"}, imp)

InitProject ==
    /\ options \in ProjectOptionsSet
    /\ framework \in {"vite", "rollup"}
    /\ phase = "setup"
    /\ root = Cwd
    /\ isSsrBuild = targetIsServer
    /\ graph = EmptyGraph
    /\ resolving = {}
    /\ inflight = {}
    /\ last = NoCall
    /\ console = NotCaptured
    /\ arrivals = Logged(<<>>)
    /\ probe = NoProbe

\* the host goes on unless the hook has thrown
ProjectContinue ==
    /\ last.outcome # "throw"
    /\ HostContinue

NextProject ==
    \/ \E r \in Roots : ViteConfigResolved(r)
    \/ Arrivals = <<>> /\ BuildStart
    \/ \E imp \in ProjectImports :
          MayResolve(imp) /\ SpecifiersViteResolveId(imp.id, imp.importer, FALSE)
    \/ \E imp \in ProjectImports :
          MayResolve(imp) /\ SpecifiersResolveId(imp.id, imp.importer)
    \/ \E imp \in ProjectImports :
          MayResolveFile(imp) /\ FilesViteResolveId(imp.id, imp.importer, FALSE, imp.target)
    \/ \E imp \in ProjectImports :
          MayResolveFile(imp) /\ FilesResolveId(imp.id, imp.importer)
    \/ \E file \in DOMAIN FileSystem :
          MayLoad(file) /\ DirectiveViteTransform(FileSystem[file], file, FALSE)
    \/ \E file \in DOMAIN FileSystem :
          MayLoad(file) /\ DirectiveTransform(FileSystem[file], file)
    \/ ProjectContinue

SpecProject == InitProject /\ [][NextProject]_vars

----------------------------------------------------------------------------
(* presets.ts: preset(overrides) called on its own *)

\* a RegExp with its flags
RegExpFlags(source, flags) == [kind |-> "regexp", source |-> source, flags |-> flags]

\* variant: two regular expressions match when their sources do
patternMatchesSourceOnly(pattern, exclude) ==
    IF pattern.kind = "string" /\ exclude.kind = "string" THEN pattern.text = exclude.text
    ELSE IF pattern.kind = "regexp" /\ exclude.kind = "regexp"
    THEN pattern.source = exclude.source
    ELSE FALSE

patternMatches(pattern, exclude) ==
    IF pattern.kind = "string" /\ exclude.kind = "string" THEN pattern.text = exclude.text
    ELSE IF pattern.kind = "regexp" /\ exclude.kind = "regexp"
    THEN pattern.source = exclude.source /\ pattern.flags = exclude.flags
    ELSE FALSE

filterPatterns(patterns, exclude) ==
    IF Len(exclude) = 0 THEN patterns
    ELSE SelectSeq(patterns,
                   LAMBDA q : ~\E i \in 1..Len(exclude) : patternMatches(q, exclude[i]))

PresetNode == RegExpFlags(<<"^", "node:">>, <<>>)

PresetDrizzle == GlobPattern(<<"drizzle-orm">>)

PresetDrizzleSub == RegExpFlags(<<"^", "drizzle-orm", "\\/">>, <<>>)

PresetTestFiles == GlobPattern(<<"**", "/", "*", ".", "test", ".", "*">>)

\* the default preset, each list cut down to a few of its entries
defaultPreset ==
    [client |->
        [specifiers |-> <<PresetNode, GlobPattern(<<"fs">>), GlobPattern(<<"pg">>),
                          PresetDrizzle, PresetDrizzleSub>>,
         files |-> <<GlobPattern(<<"**", "/", ".", "server", "/", "**">>), PatServerFiles>>],
     server |->
        [specifiers |-> <<GlobPattern(<<"react-dom", "/", "client">>), GlobPattern(<<"idb">>)>>,
         files |-> <<GlobPattern(<<"**", "/", ".", "client", "/", "**">>),
                     GlobPattern(<<"**", "/", "*", ".", "client", ".", "*">>)>>],
     ignoreImporters |-> <<PresetTestFiles,
                           GlobPattern(<<"**", "/", "*", ".", "spec", ".", "*">>)>>]

\* overrides = {}
EmptyOverrides == [exclude |-> None, client |-> None, server |-> None, ignoreImporters |-> None]

\* opt ?? []
OrEmpty(opt) == IF opt = None THEN <<>> ELSE opt.some

\* preset(overrides); None is the call without an argument
preset(arg) ==
    LET overrides == IF arg = None THEN EmptyOverrides ELSE arg.some
        exclude == OrEmpty(overrides.exclude)
        added(env, kind) ==
            IF overrides[env] = None THEN <<>> ELSE OrEmpty(overrides[env].some[kind])
        list(env, kind) == filterPatterns(defaultPreset[env][kind], exclude) \o added(env, kind)
    IN  [client |-> [specifiers |-> list("client", "specifiers"),
                     files |-> list("client", "files")],
         server |-> [specifiers |-> list("server", "specifiers"),
                     files |-> list("server", "files")],
         ignoreImporters |-> filterPatterns(defaultPreset.ignoreImporters, exclude)
                                \o OrEmpty(overrides.ignoreImporters)]

MaxExclude == 2

\* entries for exclude: default strings and regular expressions, a string no
\* list holds, a regular expression with the source of a default and other
\* flags, and a string with the text of a default regular expression's source
ExcludePatterns ==
    {PresetDrizzle, PresetNode, PresetTestFiles, GlobPattern(<<"x">>),
     RegExpFlags(<<"^", "node:">>, <<"i">>), GlobPattern(<<"^", "node:">>)}

ExcludeLists == {None} \cup {Some(l) : l \in ListsUpTo(ExcludePatterns, MaxExclude)}

\* client and server of the overrides: absent, or with one of the two lists
EnvOverrides ==
    {None,
     Some([specifiers |-> Some(<<GlobPattern(<<"my-custom-server-lib">>), PresetDrizzle>>),
           files |-> None]),
     Some([specifiers |-> None,
           files |-> Some(<<GlobPattern(<<"**", "/", "api", "/", "**">>)>>)])}

IgnoreOverrides == {None, Some(<<GlobPattern(<<"**", "/", "e2e", "/", "**">>)>>)}

PresetArgs ==
    {None} \cup
    {Some([exclude |-> ex, client |-> cl, server |-> sv, ignoreImporters |-> ig]) :
       ex \in ExcludeLists, cl \in EnvOverrides, sv \in {None}, ig \in IgnoreOverrides}
    \cup
    {Some([exclude |-> None, client |-> None, server |-> sv, ignoreImporters |-> None]) :
       sv \in EnvOverrides}

NoPreset == [none |-> TRUE]

InitPreset ==
    /\ Idle
    /\ probe \in {[fn |-> "preset", arg |-> a, done |-> FALSE, result |-> NoPreset] :
                    a \in PresetArgs}

\* const result = preset(overrides)
CallPreset ==
    /\ probe.fn = "preset"
    /\ ~probe.done
    /\ probe' = [probe EXCEPT !.done = TRUE, !.result = preset(probe.arg)]
    /\ UNCHANGED <<options, framework, phase, root, isSsrBuild, graph, resolving, inflight, last,
                   console, arrivals>>

NextPreset == CallPreset

SpecPreset == InitPreset /\ [][NextPreset]_vars

----------------------------------------------------------------------------
(* buildTrace called on every graph of three modules, the graphs with import *)
(* cycles and with modules that import themselves included                   *)

WalkNodes == {FileA, FileB, FileC}

MaxImporters == 2

\* the specifier a module of WalkNodes is imported with
RelativeSpecifier(file) ==
    IF file = FileA THEN SpecRelA ELSE IF file = FileB THEN SpecRelB ELSE SpecRelC

\* the importers record can leave in one list: no importer twice
ImporterLists ==
    { l \in ListsUpTo(WalkNodes, MaxImporters) :
        \A i \in 1..Len(l), j \in 1..Len(l) : l[i] = l[j] => i = j }

WalkGraphs ==
    { [t \in WalkNodes |->
         [i \in 1..Len(l[t]) |-> ImportEdge(l[t][i], RelativeSpecifier(t))]] :
      l \in [WalkNodes -> ImporterLists] }

InitWalk ==
    /\ options = Options(None, None, None, None, None, None, None)
    /\ framework = "rollup"
    /\ phase = "setup"
    /\ root = Cwd
    /\ isSsrBuild = FALSE
    /\ graph \in WalkGraphs
    /\ resolving = {}
    /\ inflight = {}
    /\ last = NoCall
    /\ console = NotCaptured
    /\ arrivals = NotLogged
    /\ probe = NoProbe

NextWalk ==
    \E target \in WalkNodes, depth \in Depths : GraphBuildTrace(target, depth)

SpecWalk == InitWalk /\ [][NextWalk]_vars

----------------------------------------------------------------------------
(* Vocabulary of the properties *)

SpecifierHooks == {"specifiers.vite.resolveId", "specifiers.resolveId"}

FilesHooks == {"files.vite.resolveId", "files.resolveId"}

TransformHooks == {"directive.vite.transform", "directive.transform"}

ViteHooks == {"specifiers.vite.resolveId", "files.vite.resolveId", "directive.vite.transform"}

\* the execution context the returning call was evaluated in: the per-call ssr
\* flag under vite, the build-level flag under the other bundlers
EventEnv ==
    IF last.call.hook \in ViteHooks
    THEN IF last.call.ssr THEN "server" ELSE "client"
    ELSE IF isSsrBuild THEN "server" ELSE "client"

OtherEnv(env) == IF env = "client" THEN "server" ELSE "client"

\* the call produced a diagnostic, thrown or passed to console.warn
Reported == last.outcome = "throw" \/ last.warning # NoWarning

WarnPrefix == <<"\n", "(warning)", "  [", PLUGIN_NAME, "]", "\n">>

\* the text of the diagnostic
Diagnostic ==
    IF last.outcome = "throw" THEN last.error.message
    ELSE SubSeq(last.warning, Len(WarnPrefix) + 1, Len(last.warning) - 1)

DiagLines == SplitStr(Diagnostic, "\n")

\* the configured list of a context ("specifiers" or "files"), empty if absent
ConfiguredList(env, kind) ==
    IF options[env] = None \/ options[env].some[kind] = None THEN <<>>
    ELSE options[env].some[kind].some

IgnoreList == IF options.ignoreImporters = None THEN <<>> ELSE options.ignoreImporters.some

ConfiguredDepth == IF options.maxDepth = None THEN 15 ELSE options.maxDepth.some

\* the indices of the patterns of a list that the candidate matches
Hits(candidate, list) == {i \in 1..Len(list) : PatternTest(candidate, list[i])}

SomeFileIgnored(trace) ==
    \E k \in 1..Len(trace) : Hits(trace[k].file, IgnoreList) # {}

\* the trace of the importer of the returning call
ImporterTrace ==
    IF last.call.importer = NoImporter THEN <<>>
    ELSE buildTrace(graph, last.call.importer, ConfiguredDepth)

\* path is root followed by "/" and rel
RootRelative(path, rel) == path = root \o <<"/">> \o rel

ContextLine(env) == <<ENV_EMOJI[env], " ", env>>

ImportDeniedBanner == <<"(no-entry)", " ", "Import Denied">>

DirectiveDeniedBanner == <<"(no-entry)", " ", "Directive Denied">>

\* some line of the diagnostic shows the file, relative to the root
Shows(file) ==
    \E n \in 1..Len(DiagLines), rel \in {Drop(file, Len(root) + 1)} :
        RootRelative(file, rel) /\ Includes(DiagLines[n], rel)

----------------------------------------------------------------------------
(* Properties *)

\* C1: a specifiers-hook call that has an importer and is evaluated in context
\* E reports a denial exactly when the raw specifier matches a pattern of E's
\* specifier list and no file of the importer's trace is ignored; the report is
\* an Import Denied diagnostic naming E and a matched pattern, and it shows the
\* importer and the importer's recorded importer.
C1_SpecifierDenial ==
    (last.call.hook \in SpecifierHooks /\ last.call.importer # NoImporter) =>
        LET env == EventEnv
            list == ConfiguredList(env, "specifiers")
            hits == Hits(last.call.id, list)
            importer == last.call.importer
        IN  /\ Reported <=> (hits # {} /\ ~SomeFileIgnored(ImporterTrace))
            /\ Reported =>
                /\ DiagLines[1] = ImportDeniedBanner
                /\ \E i \in hits :
                      DiagLines[2] = ContextLine(env) \o <<"  .  pattern: ">>
                                        \o PatternToString(list[i])
                /\ Shows(importer)
                /\ (/\ importer \in DOMAIN graph
                    /\ Len(graph[importer]) > 0
                    /\ ConfiguredDepth >= 2) => Shows(graph[importer][1].importer)

\* a.js -> b.js -> denied: the denial of b.js's import shows a.js and b.js
C1_Witness ==
    /\ last.call.hook \in SpecifierHooks
    /\ last.call.id = SpecDenied
    /\ last.call.importer = FileB
    /\ Reported
    /\ FileB \in DOMAIN graph
    /\ Len(graph[FileB]) > 0
    /\ graph[FileB][1].importer = FileA
    /\ Shows(FileA)
    /\ Shows(FileB)

C3_ContextIsolation ==
    (last.call.hook \in SpecifierHooks \cup FilesHooks /\ Reported) =>
        LET env == EventEnv
            kind == IF last.call.hook \in SpecifierHooks THEN "specifiers" ELSE "files"
            candidate == IF last.call.hook \in SpecifierHooks THEN last.call.id
                         ELSE Drop(last.call.resolved, Len(root) + 1)
        IN  /\ options[env] # None
            /\ options[env].some[kind] # None
            /\ Hits(candidate, ConfiguredList(env, kind)) # {}
            /\ Take(DiagLines[2], 3) = ContextLine(env)

\* a call evaluated in one context passes although the specifier or the path
\* matches a pattern of the other context
C3_Witness ==
    /\ last.call.hook \in SpecifierHooks \cup FilesHooks
    /\ last.call.importer # NoImporter
    /\ ~Reported
    /\ \/ /\ last.call.hook \in SpecifierHooks
          /\ Hits(last.call.id, ConfiguredList(OtherEnv(EventEnv), "specifiers")) # {}
       \/ /\ last.call.hook \in FilesHooks
          /\ IsAbsolute(last.call.resolved)
          /\ Hits(Drop(last.call.resolved, Len(root) + 1),
                  ConfiguredList(OtherEnv(EventEnv), "files")) # {}
    /\ ~SomeFileIgnored(ImporterTrace)

\* C4: match returns the first pattern of the list, in declared order, that the
\* candidate matches, and null when the list is absent, empty or without a
\* matching pattern; for ['a', /a/] and 'a' it returns the string 'a'.
C4_MatchFirst ==
    (probe.fn = "match" /\ probe.done) =>
        LET list == IF probe.patterns = None THEN <<>> ELSE probe.patterns.some
            hits == Hits(probe.id, list)
        IN  /\ (probe.result = NoPattern) <=> (hits = {})
            /\ hits # {} =>
                  \E i \in hits : /\ probe.result = list[i]
                                 /\ \A j \in 1..(i - 1) : j \notin hits
            /\ (probe.id = <<"a">>
                /\ probe.patterns = Some(<<GlobPattern(<<"a">>), RegExpPattern(<<"a">>)>>))
                  => probe.result = GlobPattern(<<"a">>)

\* match('a', ['a', /a/]) has returned
C4_Witness ==
    /\ probe.fn = "match"
    /\ probe.done
    /\ probe.id = <<"a">>
    /\ probe.patterns = Some(<<GlobPattern(<<"a">>), RegExpPattern(<<"a">>)>>)
    /\ probe.result = GlobPattern(<<"a">>)

\* the source, after leading white space, begins with the quoted marker
BeginsWith(code, marker) ==
    \E k \in 0..Len(code) :
        /\ \A j \in 1..k : code[j] \in {" ", "\n"}
        /\ Len(code) >= k + 3
        /\ SubSeq(code, k + 1, k + 3) \in {<<"'", marker, "'">>, <<"\"", marker, "\"">>}

C7_DirectivesOption ==
    last.call.hook \in TransformHooks =>
        /\ options.directives = Some(FALSE) =>
              (last.outcome = "null" /\ last.warning = NoWarning /\ last.error = NoError)
        /\ (/\ options.directives = None
            /\ BeginsWith(last.call.code, "use server")
            /\ EventEnv = "client") => Reported

\* "use server" in client context passes when directives is false
C7_Witness ==
    /\ last.call.hook \in TransformHooks
    /\ options.directives = Some(FALSE)
    /\ BeginsWith(last.call.code, "use server")
    /\ EventEnv = "client"
    /\ last.outcome = "null"
    /\ last.warning = NoWarning

\* the returning call is a specifier or file check that found a matching pattern
RuleMatched ==
    \/ /\ last.call.hook \in SpecifierHooks
       /\ last.call.importer # NoImporter
       /\ Hits(last.call.id, ConfiguredList(EventEnv, "specifiers")) # {}
    \/ /\ last.call.hook \in FilesHooks
       /\ IsAbsolute(last.call.resolved)
       /\ Hits(Drop(last.call.resolved, Len(root) + 1), ConfiguredList(EventEnv, "files")) # {}

\* C8: isIgnored is true exactly when the ignore list is non-empty and some
\* trace node's file matches some ignore pattern; when it is true for a
\* would-be specifier or file denial the hook returns null without throwing
\* or warning, in error mode and in warn mode.
C8_IgnoreSuppresses ==
    RuleMatched =>
        LET trace == ImporterTrace
        IN  /\ isIgnored(trace, IgnoreList) <=>
                  (/\ Len(IgnoreList) > 0
                   /\ \E k \in 1..Len(trace), j \in 1..Len(IgnoreList) :
                          PatternTest(trace[k].file, IgnoreList[j]))
            /\ isIgnored(trace, IgnoreList) =>
                  (last.outcome = "null" /\ last.warning = NoWarning /\ last.error = NoError)

\* x.test.js -> b.js -> denied: the would-be denial is suppressed by the ancestor
C8_Witness ==
    /\ RuleMatched
    /\ last.call.importer = FileB
    /\ FileB \in DOMAIN graph
    /\ Len(graph[FileB]) > 0
    /\ graph[FileB][1].importer = FileTest
    /\ Hits(FileTest, IgnoreList) # {}
    /\ Hits(FileB, IgnoreList) = {}
    /\ last.outcome = "null"
    /\ last.warning = NoWarning

\* the chain of first-recorded importers leading to the importer of the
\* returning call, followed back to the entry
ChainToImporter ==
    IF last.call.importer = NoImporter THEN <<>>
    ELSE buildTrace(graph, last.call.importer, Cardinality(DOMAIN graph) + 2)

\* C9 as stated: the check is skipped whenever any file of the import chain from
\* the entry to the importer matches an ignore pattern, whatever maxDepth is.
C9_IgnoredAnywhereInChain ==
    (RuleMatched /\ SomeFileIgnored(ChainToImporter)) => ~Reported

\* the returning call found a match that is not ignored
PositiveMatch ==
    \/ RuleMatched /\ ~SomeFileIgnored(ImporterTrace)
    \/ /\ last.call.hook \in TransformHooks
       /\ options.directives # Some(FALSE)
       /\ BeginsWith(last.call.code, "use server")
       /\ EventEnv = "client"

\* C10: in error mode (the default) every positive, non-ignored specifier, file
\* or directive match makes the hook throw an error that carries the plugin
\* name and whose message is the formatted diagnostic; nothing is warned.
C10_ErrorModeThrows ==
    (options.mode \in {None, Some("error")} /\ PositiveMatch) =>
        /\ last.outcome = "throw"
        /\ last.warning = NoWarning
        /\ last.error.plugin = "unplugin-deny-imports"
        /\ LET lines == SplitStr(last.error.message, "\n")
           IN  /\ lines[1] = (IF last.call.hook \in TransformHooks
                              THEN DirectiveDeniedBanner ELSE ImportDeniedBanner)
               /\ Take(lines[2], 3) = ContextLine(EventEnv)
               /\ lines[Len(lines)] = <<SEPARATOR>>
               /\ Cardinality({n \in 1..Len(lines) : lines[n] = <<SEPARATOR>>}) = 2

\* a file denial thrown with the mode option omitted
C10_Witness ==
    /\ options.mode = None
    /\ last.call.hook \in FilesHooks
    /\ PositiveMatch
    /\ last.outcome = "throw"

\* C11: in warn mode no resolveId or transform call throws: a positive,
\* non-ignored specifier, file or directive match passes the formatted diagnostic
\* to console.warn behind the plugin's prefix and the hook returns null; a call
\* without such a match warns nothing.
C11_WarnModeNeverThrows ==
    (options.mode = Some("warn") /\ last.call.hook # "none") =>
        /\ last.outcome = "null"
        /\ last.error = NoError
        /\ PositiveMatch <=> last.warning # NoWarning
        /\ PositiveMatch =>
            /\ Take(last.warning, Len(WarnPrefix)) = WarnPrefix
            /\ last.warning[Len(last.warning)] = "\n"
            /\ DiagLines[1] = (IF last.call.hook \in TransformHooks
                               THEN DirectiveDeniedBanner ELSE ImportDeniedBanner)
            /\ Take(DiagLines[2], 3) = ContextLine(EventEnv)

\* a denied specifier in warn mode: warned, and null returned
C11_Witness ==
    /\ options.mode = Some("warn")
    /\ last.call.hook \in SpecifierHooks
    /\ last.call.id = SpecDenied
    /\ PositiveMatch
    /\ last.outcome = "null"
    /\ last.warning # NoWarning

\* the importers of an edge list, in list order
ImportersOf(edges) == [i \in 1..Len(edges) |-> edges[i].importer]

\* no importer occurs twice in the edge list
OneEdgePerImporter(edges) ==
    \A i, j \in 1..Len(edges) : edges[i].importer = edges[j].importer => i = j

\* the (target, importer) pair has an edge in graph g
HasEdge(g, id, importer) ==
    /\ id \in DOMAIN g
    /\ \E i \in 1..Len(g[id]) : g[id][i].importer = importer

\* C13: after any sequence of record, invalidate and clear every target's edge
\* list holds at most one edge per importer, and a record of a (target,
\* importer) pair that already has an edge, with the same or another specifier,
\* leaves the list as it was: same length, same order, same specifiers.
C13_OneEdgePerImporter ==
    /\ \A id \in DOMAIN graph : OneEdgePerImporter(graph[id])
    /\ (probe.fn = "record" /\ HasEdge(probe.before, probe.id, probe.importer)) =>
          /\ graph[probe.id] = probe.before[probe.id]
          /\ graph = probe.before

\* a.js's import of b.js is recorded again under the specifier '@/b' while
\* './b' is on record: the edge keeps './b'
C13_Witness ==
    /\ probe.fn = "record"
    /\ probe.id = FileB
    /\ probe.importer = FileA
    /\ probe.specifier = SpecAliasB
    /\ HasEdge(probe.before, FileB, FileA)
    /\ graph[FileB] = <<ImportEdge(FileA, SpecRelB)>>

\* entry.js -> a.js -> b.js -> c.js -> denied.js, recorded top-down
ChainGraph ==
    record(record(record(record(EmptyGraph,
        FileA, FileEntry, SpecRelA),
        FileB, FileA, SpecRelB),
        FileC, FileB, SpecRelC),
        FileDenied, FileC, SpecRelDenied)

ChainLength == Cardinality(GraphNodes)

\* C14: the last entry of a trace is the target, without a specifier, and every
\* adjacent pair (trace[k], trace[k+1]) is a recorded edge of trace[k+1].file
\* whose importer is trace[k].file and whose specifier trace[k] carries; for the
\* chain entry.js -> a.js -> b.js -> c.js -> denied.js and a maxDepth of at
\* least the chain length the trace is the whole chain, entry first.
C14_TraceFollowsEdges ==
    probe.fn = "buildTrace" =>
        LET r == probe.result
            n == Len(r)
        IN  /\ n >= 1
            /\ r[n] = [file |-> probe.target]
            /\ \A k \in 1..(n - 1) :
                  /\ r[k + 1].file \in DOMAIN graph
                  /\ \E i \in 1..Len(graph[r[k + 1].file]) :
                        graph[r[k + 1].file][i] = ImportEdge(r[k].file, r[k].specifier)
            /\ (graph = ChainGraph /\ probe.target = FileDenied
                /\ probe.maxDepth >= ChainLength) =>
                  r = << [file |-> FileEntry, specifier |-> SpecRelA],
                         [file |-> FileA, specifier |-> SpecRelB],
                         [file |-> FileB, specifier |-> SpecRelC],
                         [file |-> FileC, specifier |-> SpecRelDenied],
                         [file |-> FileDenied] >>

\* buildTrace(denied.js, 5) on the chain returns its five nodes
C14_Witness ==
    /\ probe.fn = "buildTrace"
    /\ graph = ChainGraph
    /\ probe.target = FileDenied
    /\ probe.maxDepth = ChainLength
    /\ Len(probe.result) = 5
    /\ probe.result[1].file = FileEntry
    /\ probe.result[5].file = FileDenied

\* the greater of two integers
Max(a, b) == IF a >= b THEN a ELSE b

Min(a, b) == IF a <= b THEN a ELSE b

\* the walk from target with no depth limit in its way
FullTrace(g, target) == buildTrace(g, target, Cardinality(GraphNodes) + 2)

\* C15 as stated: for every maxDepth value the trace has at most maxDepth
\* entries; for the chain and maxDepth = 2 it is the denied module and its
\* immediate importer.
C15_AtMostMaxDepth ==
    probe.fn = "buildTrace" =>
        /\ Len(probe.result) <= probe.maxDepth
        /\ (graph = ChainGraph /\ probe.target = FileDenied /\ probe.maxDepth = 2) =>
              probe.result = <<[file |-> FileC, specifier |-> SpecRelDenied],
                               [file |-> FileDenied]>>

\* C15 amended: the trace always holds the target, so for an integer maxDepth it
\* has at most max(maxDepth, 1) entries: exactly the last min(max(maxDepth, 1),
\* length) entries of the unlimited walk, the oldest ancestors dropped; for the
\* chain and maxDepth = 2 it is the denied module and its immediate importer.
C15_AtMostMaxDepthOrOne ==
    probe.fn = "buildTrace" =>
        LET r == probe.result
            full == FullTrace(graph, probe.target)
            keep == Min(Max(probe.maxDepth, 1), Len(full))
        IN  /\ Len(r) <= Max(probe.maxDepth, 1)
            /\ Len(r) >= 1
            /\ r = SubSeq(full, Len(full) - keep + 1, Len(full))
            /\ (graph = ChainGraph /\ probe.target = FileDenied /\ probe.maxDepth = 2) =>
                  /\ r = <<[file |-> FileC, specifier |-> SpecRelDenied],
                           [file |-> FileDenied]>>
                  /\ \A k \in 1..Len(r) : r[k].file # FileEntry

\* buildTrace(denied.js, 2) on the chain: two entries, the ancestors dropped
C15_Witness ==
    /\ probe.fn = "buildTrace"
    /\ graph = ChainGraph
    /\ probe.target = FileDenied
    /\ probe.maxDepth = 2
    /\ Len(probe.result) = 2
    /\ Len(FullTrace(graph, FileDenied)) = 5

\* C16: every step of the walk follows the first edge of the current node's
\* list, and the list is in recording order: record puts a new importer behind
\* the edges already there, so the first edge is the earliest recorded of the
\* edges still present, even when a later one gives a shorter or longer chain.
C16_FirstEdgeWins ==
    /\ probe.fn = "buildTrace" =>
          \A k \in 1..(Len(probe.result) - 1) :
              LET edges == graph[probe.result[k + 1].file]
              IN  probe.result[k] = [file |-> edges[1].importer,
                                     specifier |-> edges[1].specifier]
    /\ (probe.fn = "record" /\ ~HasEdge(probe.before, probe.id, probe.importer)) =>
          LET old == IF probe.id \in DOMAIN probe.before THEN probe.before[probe.id]
                     ELSE <<>>
          IN  graph[probe.id] = old \o <<ImportEdge(probe.importer, probe.specifier)>>

\* c.js was imported by b.js first and by a.js later: the trace of denied.js
\* goes through b.js although the chain through a.js is shorter
C16_Witness ==
    /\ probe.fn = "buildTrace"
    /\ probe.target = FileDenied
    /\ probe.maxDepth = MaxDepthArg
    /\ FileC \in DOMAIN graph
    /\ ImportersOf(graph[FileC]) = <<FileB, FileA>>
    /\ HasEdge(graph, FileB, FileA)
    /\ HasEdge(graph, FileA, FileEntry)
    /\ Len(probe.result) = 5
    /\ probe.result[3].file = FileB

\* the files of a trace
TraceFiles(trace) == {trace[k].file : k \in 1..Len(trace)}

\* f has no edge as a target, no edge has f as its importer, no trace of another
\* target contains f and the trace of f is [f], whatever the depth
Forgotten(g, f) ==
    /\ f \in DOMAIN g => g[f] = <<>>
    /\ \A id \in DOMAIN g : ~HasEdge(g, id, f)
    /\ \A target \in GraphNodes \ {f} : f \notin TraceFiles(FullTrace(g, target))
    /\ \A depth \in Depths : buildTrace(g, f, depth) = <<[file |-> f]>>

\* C19: invalidate(f) leaves f with no edge as a target and as an importer of
\* no edge, and this lasts until a record names f again (as target or as
\* importer): meanwhile no trace of another target contains f and
\* buildTrace(f) is [f]. (A buildTrace step leaves the graph as it is; every
\* other step is an invalidate, a clear or a record.)
C19_InvalidateForgets ==
    [][IF probe'.fn = "buildTrace" THEN graph' = graph
       ELSE \A f \in GraphNodes :
               (\/ probe'.fn = "invalidate" /\ probe'.file = f
                \/ /\ Forgotten(graph, f)
                   /\ ~(probe'.fn = "record" /\ f \in {probe'.id, probe'.importer}))
               => Forgotten(graph', f)]_vars

\* b.js, a target and an importer on record, has been invalidated
C19_Witness ==
    /\ probe.fn = "invalidate"
    /\ probe.file = FileB
    /\ HasEdge(probe.before, FileB, FileA)
    /\ HasEdge(probe.before, FileC, FileB)
    /\ FileB \in TraceFiles(FullTrace(probe.before, FileDenied))
    /\ Forgotten(graph, FileB)

\* the edges of a list whose importer is not f, in list order
Surviving(edges, f) ==
    LET RECURSIVE Keep(_)
        Keep(es) == IF es = <<>> THEN <<>>
                    ELSE IF es[1].importer = f THEN Keep(Tail(es))
                    ELSE <<es[1]>> \o Keep(Tail(es))
    IN  Keep(edges)

\* C20: invalidate(f) touches only f: every other target is still a key, and
\* its list holds exactly its former edges whose importer is not f, each with
\* its specifier and in the same relative order.
C20_InvalidateFrame ==
    probe.fn = "invalidate" =>
        LET f == probe.file
            old == probe.before
        IN  /\ DOMAIN graph = DOMAIN old \ {f}
            /\ \A id \in DOMAIN old \ {f} :
                  /\ \A i \in 1..Len(old[id]) :
                        old[id][i].importer # f =>
                            \E k \in 1..Len(graph[id]) : graph[id][k] = old[id][i]
                  /\ \A i, j \in 1..Len(old[id]) :
                        (i < j /\ old[id][i].importer # f /\ old[id][j].importer # f) =>
                            \E k, l \in 1..Len(graph[id]) :
                                /\ k < l
                                /\ graph[id][k] = old[id][i]
                                /\ graph[id][l] = old[id][j]
                  /\ \A k \in 1..Len(graph[id]) :
                        /\ graph[id][k].importer # f
                        /\ \E i \in 1..Len(old[id]) : old[id][i] = graph[id][k]
                  /\ Len(graph[id]) = Len(Surviving(old[id], f))

\* b.js is invalidated while c.js is imported by b.js and then a.js, and
\* denied.js by c.js: c.js keeps a.js's edge, denied.js keeps its edge
C20_Witness ==
    /\ probe.fn = "invalidate"
    /\ probe.file = FileB
    /\ FileC \in DOMAIN probe.before
    /\ ImportersOf(probe.before[FileC]) = <<FileB, FileA>>
    /\ HasEdge(probe.before, FileDenied, FileC)
    /\ graph[FileC] = <<ImportEdge(FileA, SpecRelC)>>
    /\ graph[FileDenied] = <<ImportEdge(FileC, SpecRelDenied)>>

\* the returning call is a resolution call without an importer
EntryCall == last.call.hook \in SpecifierHooks \cup FilesHooks /\ last.call.importer = NoImporter

\* C17 as stated: a resolution call without an importer evaluates neither a
\* specifier denial nor a file denial, on the vite hooks and on the fallback
\* hooks: it reports nothing and returns null.
C17_EntryNeverEvaluated ==
    EntryCall => (~Reported /\ last.outcome = "null")

\* C17 amended: without an importer the two specifiers hooks and the fallback
\* files hook evaluate nothing and return null; the vite files hook records no
\* edge but still resolves the specifier and evaluates the file denial on the
\* resolved path: it reports exactly when the root-relative path matches a files
\* pattern of the call's context (the ignore list has no trace to apply to),
\* with a trace that holds the denied specifier alone.
C17_EntryOnlyViteFiles ==
    /\ \A id \in DOMAIN graph : ~HasEdge(graph, id, NoImporter)
    /\ EntryCall =>
        /\ last.call.hook # "files.vite.resolveId" =>
              (~Reported /\ last.outcome = "null" /\ last.env = "none")
        /\ (last.call.hook = "files.vite.resolveId" /\ IsAbsolute(last.call.resolved)) =>
              LET list == ConfiguredList(EventEnv, "files")
                  rel == Drop(last.call.resolved, Len(root) + 1)
              IN  /\ Reported <=> Hits(rel, list) # {}
                  /\ Reported =>
                        /\ Len(DiagLines) = 6
                        /\ DiagLines[1] = ImportDeniedBanner
                        /\ DiagLines[3] = <<"resolved: ">> \o rel
                        /\ DiagLines[5] = <<"  ", "1", ". ", "(cross)", " ">> \o last.call.id
        /\ (last.call.hook = "files.vite.resolveId" /\ ~IsAbsolute(last.call.resolved)) =>
              (~Reported /\ last.outcome = "null")

\* the vite files hook, called for the entry u.server.js without an importer,
\* reports the file denial
C17_Witness ==
    /\ EntryCall
    /\ last.call.hook = "files.vite.resolveId"
    /\ last.call.resolved = FileServer
    /\ Reported
    /\ Len(DiagLines) = 6

\* the returning call is a positive, non-ignored match under the rules of env
PositiveMatchIn(env) ==
    \/ /\ last.call.hook \in SpecifierHooks
       /\ last.call.importer # NoImporter
       /\ Hits(last.call.id, ConfiguredList(env, "specifiers")) # {}
       /\ ~SomeFileIgnored(ImporterTrace)
    \/ /\ last.call.hook \in FilesHooks
       /\ IsAbsolute(last.call.resolved)
       /\ Hits(Drop(last.call.resolved, Len(root) + 1), ConfiguredList(env, "files")) # {}
       /\ ~SomeFileIgnored(ImporterTrace)
    \/ /\ last.call.hook \in TransformHooks
       /\ options.directives # Some(FALSE)
       /\ BeginsWith(last.call.code, "use server")
       /\ env = "client"

\* the call is decided by the rules of env, and a report names env
EvaluatedIn(env) ==
    /\ Reported <=> PositiveMatchIn(env)
    /\ Reported => Take(DiagLines[2], 3) = ContextLine(env)

\* C18 as stated: with the target option set, every resolution and transform
\* call is evaluated in the configured context, whatever the per-call ssr flag
\* and the build-level ssr signal of the host.
C18_TargetDecidesEveryCall ==
    (options.target # None /\ last.call.hook # "none") => EvaluatedIn(options.target.some)

\* C18 amended: with the target option set, the fallback (non-vite) hooks
\* evaluate every call in the configured context and vite's build-level ssr
\* signal does not change isSsrBuild; the vite hooks do not read the option and
\* evaluate every call in the context of its own ssr flag.
C18_TargetDecidesFallbackCalls ==
    options.target # None =>
        /\ isSsrBuild = (options.target.some = "server")
        /\ (last.call.hook # "none" /\ last.call.hook \notin ViteHooks) =>
              EvaluatedIn(options.target.some)
        /\ last.call.hook \in ViteHooks =>
              EvaluatedIn(IF last.call.ssr THEN "server" ELSE "client")

\* target: 'server' and a fallback hook reports a denial under the server rules
C18_Witness ==
    /\ options.target = Some("server")
    /\ last.call.hook \in {"specifiers.resolveId", "files.resolveId"}
    /\ Reported
    /\ Take(DiagLines[2], 3) = ContextLine("server")

\* the text passed to console.warn is the advisory of the import of id by
\* importer: its trace opens with the denied id, imported by the importer
AdvisoryOf(text, id, importer) ==
    LET lines == SplitStr(text, "\n")
    IN  \E n \in 1..(Len(lines) - 1) :
            /\ lines[n] = <<"  ", "1", ". ", "(cross)", " ">> \o id
            /\ StartsWith(lines[n + 1], <<"  ", "2", ". ">> \o toRelative(root, importer))

\* the advisories of the build so far for the import of id by importer
Advisories(id, importer) ==
    {n \in 1..Len(console.calls) : AdvisoryOf(console.calls[n], id, importer)}

\* C12 as stated: in warn mode a denied import edge gets exactly one advisory
\* over a build: one when it is first denied, and no further one when the same
\* (specifier, importer) is resolved again, in sequence or concurrently.
C12_OneAdvisoryPerEdge ==
    (console.captured /\ options.mode = Some("warn")) =>
        \A id \in BuildIds, importer \in BuildImporters :
            Cardinality(Advisories(id, importer)) <= 1


\* C24: a trace returned by buildTrace names no module file twice, whatever
\* cycles or self-imports the graph holds
C24_NoFileTwice ==
    probe.fn = "buildTrace" =>
        \A i \in 1..Len(probe.result), j \in 1..Len(probe.result) :
            probe.result[i].file = probe.result[j].file => i = j

\* the modules of g that have an importer recorded
Imported(g) == {t \in DOMAIN g : Len(g[t]) > 0}

\* C25: buildTrace returns on every graph and for every maxDepth, after at most
\* one pass of its loop per module that has an importer, so the trace it
\* returns is at most one entry longer than the number of those modules
C25_WalkTerminates ==
    probe.fn = "buildTrace" =>
        /\ Len(probe.result) >= 1
        /\ Len(probe.result) <= Cardinality(Imported(probe.before)) + 1

\* a walk around a cycle of three modules with a maxDepth beyond their number
C25_Witness ==
    /\ probe.fn = "buildTrace"
    /\ probe.maxDepth > Cardinality(WalkNodes) + 1
    /\ Len(probe.result) = Cardinality(WalkNodes) + 1
    /\ probe.result[1].file = probe.target

\* a walk from a module whose first importer is the module itself
C25_WitnessSelfImport ==
    /\ probe.fn = "buildTrace"
    /\ probe.maxDepth > 2
    /\ Len(probe.before[probe.target]) > 0
    /\ probe.before[probe.target][1].importer = probe.target
    /\ Len(probe.result) = 2


\* C21: right after buildStart the graph and the in-flight set are empty and
\* buildTrace(x) is [x] for every x; and every edge the graph holds later in
\* that build was recorded for a resolution the host asked for after that
\* buildStart, never for one of an earlier build
C21_BuildStartResets ==
    \A k \in 1..Len(Arrivals) :
        Arrivals[k].hook = "buildStart" =>
            /\ k = Len(Arrivals) =>
                  /\ graph = EmptyGraph
                  /\ resolving = {}
                  /\ \A x \in GraphNodes \cup Resolved \cup BuildIds :
                         buildTrace(graph, x, maxDepth) = <<[file |-> x]>>
            /\ \A t \in DOMAIN graph : \A e \in 1..Len(graph[t]) :
                  \E i \in (k + 1)..Len(Arrivals) :
                      /\ Arrivals[i].hook \in FilesHooks
                      /\ Arrivals[i].importer = graph[t][e].importer
                      /\ Arrivals[i].id = graph[t][e].specifier

\* a second build whose graph holds an edge of its own and not the one the
\* first build's resolution from another importer had led to
C21_Witness ==
    /\ Len(Arrivals) = 4
    /\ Arrivals[1].hook = "buildStart"
    /\ Arrivals[2].hook \in FilesHooks
    /\ Arrivals[2].id = FileServer
    /\ Arrivals[3].hook = "buildStart"
    /\ Arrivals[4].hook \in FilesHooks
    /\ Arrivals[4].importer # Arrivals[2].importer
    /\ FileServer \in DOMAIN graph
    /\ ImportersOf(graph[FileServer]) = <<Arrivals[4].importer>>


\* C26: the in-flight set holds the key of a files-hook call exactly while that
\* call is suspended in this.resolve: however a call has ended, its key is gone,
\* and when no call is in flight the set is empty
C26_MarkerReleased ==
    /\ resolving = {resolveKey(c.id, c.importer) : c \in inflight}
    /\ inflight = {} => resolving = {}

\* a files-hook call has ended by the rejection of this.resolve
C26_Witness ==
    /\ last.call.hook = "files.vite.resolveId"
    /\ last.outcome = "throw"
    /\ last.error = HostError
    /\ inflight = {}
    /\ resolving = {}

\* a files-hook call has ended by a denial that the ignore list suppressed
C26_WitnessIgnored ==
    /\ last.call.hook = "files.vite.resolveId"
    /\ last.call.resolved = FileServer
    /\ last.call.importer = FileTest
    /\ ~Reported
    /\ IgnoreList # <<>>
    /\ inflight = {}
    /\ resolving = {}

\* a files-hook call has ended by a thrown denial while another is suspended
C26_WitnessThrown ==
    /\ last.call.hook = "files.vite.resolveId"
    /\ last.outcome = "throw"
    /\ last.error # HostError
    /\ Cardinality(inflight) = 1
    /\ Cardinality(resolving) = 1


\* the step is the host's call c of a files hook
ArrivalOf(c) ==
    /\ arrivals.logged
    /\ arrivals'.calls = Append(arrivals.calls, c)
    /\ c.hook \in FilesHooks

\* C27: a files-hook call that arrives with an importer that is no html file
\* returns at once, recording and checking nothing, exactly if a call for the
\* same (specifier, importer) pair is in flight; a call for any other pair is
\* taken up
C27_GuardPerEdge ==
    [][\A id \in GuardIds, importer \in GuardImporters :
          ArrivalOf(Call("files.vite.resolveId", id, importer, FALSE, <<>>)) =>
              (inflight' = inflight
                  <=> \E c \in inflight : c.id = id /\ c.importer = importer)]_vars


\* the places in the log, after the latest buildStart, of the files-hook calls
\* that edge may have been recorded for
ArrivalsOf(edge) ==
    { k \in 1..Len(Arrivals) :
        /\ Arrivals[k].hook \in FilesHooks
        /\ Arrivals[k].importer = edge.importer
        /\ Arrivals[k].id = edge.specifier
        /\ \A b \in k..Len(Arrivals) : Arrivals[b].hook # "buildStart" }

\* C28 as claimed: the edges of a target are in the order in which their
\* resolution events arrived at the files hook
C28_EdgesInArrivalOrder ==
    \A t \in DOMAIN graph : \A i \in 1..Len(graph[t]), j \in 1..Len(graph[t]) :
        i < j => \E ki \in ArrivalsOf(graph[t][i]), kj \in ArrivalsOf(graph[t][j]) : ki < kj

\* the edges of t in g, none if g has no entry for t
EdgesOf(g, t) == IF t \in DOMAIN g THEN g[t] ELSE <<>>

\* C28: the edges of a target are in the order in which the path resolutions
\* of their resolution events completed: a call that resumes from this.resolve
\* leaves every list as it is or appends its own edge at the end of one, and
\* a call that arrives changes no list
C28_EdgesInCompletionOrder ==
    [][/\ \A c \in inflight \ inflight' : \A t \in DOMAIN graph' :
             \/ graph'[t] = EdgesOf(graph, t)
             \/ graph'[t] = Append(EdgesOf(graph, t), ImportEdge(c.importer, c.id))
       /\ \A c \in inflight' \ inflight : graph' = graph]_vars

\* two importers of one file whose edges are in the order their resolutions
\* completed in, the reverse of the order their events arrived in
C28_Witness ==
    /\ FileServer \in DOMAIN graph
    /\ ImportersOf(graph[FileServer]) = <<FileTest, FileA>>
    /\ Len(Arrivals) = 3
    /\ Arrivals[2].importer = FileA
    /\ Arrivals[3].importer = FileTest


\* the diagnostic of the denial of b.js's import of 'denied' shows the chain
\* entry.js -> a.js -> b.js
ShowsChainToEntry ==
    /\ Shows(FileEntry)
    /\ Shows(FileA)
    /\ Shows(FileB)

\* C22: on every bundler, when the project has been resolved top-down through
\* relative and bare specifiers, the denial of b.js's import of 'denied' shows
\* the complete chain back to the entry and not only b.js
C22_FullTraceEveryBundler ==
    (/\ last.call.hook \in SpecifierHooks
     /\ last.call.id = SpecDenied
     /\ last.call.importer = FileB
     /\ Reported) => ShowsChainToEntry

\* the same under vite alone
C22_FullTraceVite ==
    (/\ last.call.hook = "specifiers.vite.resolveId"
     /\ last.call.id = SpecDenied
     /\ last.call.importer = FileB
     /\ Reported) => ShowsChainToEntry


\* C29 as claimed: when a resolveId hook has evaluated its rule for an import
\* with an importer, the edge from the importer to the file the import
\* resolves to is in the graph
C29_RecordedBeforeAnyRule ==
    (/\ last.call.hook \in SpecifierHooks \cup FilesHooks
     /\ last.call.importer # NoImporter
     /\ last.env # "none") =>
        \A target \in HostResolve(last.call.id) :
            (IsAbsolute(target) /\ last.call.resolved \in {NoId, target}) =>
                HasEdge(graph, target, last.call.importer)

\* C29: when a files hook has evaluated the file rule for an import with an
\* importer, the edge from the importer to the resolved file is in the graph,
\* also when the rule has denied the import and the hook has thrown
C29_RecordedBeforeFileRule ==
    (/\ last.call.hook \in FilesHooks
     /\ last.call.importer # NoImporter
     /\ last.call.resolved # NoId) =>
        HasEdge(graph, last.call.resolved, last.call.importer)

\* the files hook has thrown a denial of the file rule
C29_Witness ==
    /\ last.call.hook = "files.vite.resolveId"
    /\ last.call.importer # NoImporter
    /\ last.call.resolved = FileServer
    /\ last.outcome = "throw"
    /\ HasEdge(graph, FileServer, last.call.importer)


\* C30: a module that begins with "use server" and is transformed in client
\* context while directives are enforced is denied with the directive
\* diagnostic, whatever the ignore list matches
C30_DirectiveNotIgnored ==
    (/\ last.call.hook \in TransformHooks
     /\ enforceDirectives
     /\ getDirective(last.call.code) = "use server"
     /\ EventEnv = "client") =>
        /\ Reported
        /\ \E n \in 1..Len(DiagLines) : Includes(DiagLines[n], DirectiveDeniedBanner)

\* act.js is denied although its importer y.test.js matches the ignore list
C30_Witness ==
    /\ last.call.hook \in TransformHooks
    /\ last.call.id = FileAct
    /\ Hits(FileAct, IgnoreList) = {}
    /\ SomeFileIgnored(buildTrace(graph, FileAct, ConfiguredDepth))
    /\ Reported

\* y.test.js is denied although it matches the ignore list itself
C30_WitnessItself ==
    /\ last.call.hook \in TransformHooks
    /\ last.call.id = FileYTest
    /\ Hits(FileYTest, IgnoreList) # {}
    /\ Reported


\* the entries of list that are none of the entries of exclude: a string is
\* one of them if it is the same string, a regular expression if exclude holds
\* one with the same source and flags
Kept(list, exclude) ==
    SelectSeq(list, LAMBDA q : \A i \in 1..Len(exclude) : q # exclude[i])

\* the exclude entries and the added entries of a call of preset
ExcludeOf(arg) == IF arg = None THEN <<>> ELSE OrEmpty(arg.some.exclude)

AddedTo(arg, env, kind) ==
    IF arg = None \/ arg.some[env] = None THEN <<>> ELSE OrEmpty(arg.some[env].some[kind])

AddedIgnore(arg) == IF arg = None THEN <<>> ELSE OrEmpty(arg.some.ignoreImporters)

\* C23: each list preset returns is the default list, in its order, without
\* the entries equal to an exclude entry, followed by the entries of the
\* overrides; and preset() returns the defaults
C23_PresetLists ==
    (probe.fn = "preset" /\ probe.done) =>
        /\ \A env \in {"client", "server"}, kind \in {"specifiers", "files"} :
              probe.result[env][kind] =
                  Kept(defaultPreset[env][kind], ExcludeOf(probe.arg))
                      \o AddedTo(probe.arg, env, kind)
        /\ probe.result.ignoreImporters =
              Kept(defaultPreset.ignoreImporters, ExcludeOf(probe.arg))
                  \o AddedIgnore(probe.arg)
        /\ probe.arg = None => probe.result = defaultPreset

\* 'drizzle-orm' and /^node:/i are excluded: the string is gone from the
\* defaults, /^drizzle-orm\// and /^node:/ are still there
C23_Witness ==
    /\ probe.fn = "preset"
    /\ probe.done
    /\ probe.arg # None
    /\ probe.arg.some.exclude = Some(<<PresetDrizzle, RegExpFlags(<<"^", "node:">>, <<"i">>)>>)
    /\ probe.arg.some.client = None
    /\ probe.result.client.specifiers =
          <<PresetNode, GlobPattern(<<"fs">>), GlobPattern(<<"pg">>), PresetDrizzleSub>>


\* the trace the returning hook has handed to denyError or directiveError
DeniedTrace ==
    IF last.call.hook \in TransformHooks
    THEN buildTrace(graph, last.call.id, ConfiguredDepth)
    ELSE ImporterTrace

\* what the head line names: the specifier, or the path of the module
DeniedText ==
    IF last.call.hook \in TransformHooks THEN toRelative(root, last.call.id)
    ELSE last.call.id

\* the lines of the diagnostic between its two separator lines
RenderedTrace ==
    LET all == DiagLines
        seps == {n \in 1..Len(all) : all[n] = <<SEPARATOR>>}
        first == CHOOSE n \in seps : \A m \in seps : n <= m
        final == CHOOSE n \in seps : \A m \in seps : n >= m
    IN  SubSeq(all, first + 1, final - 1)

\* the lines among the given ones that end with the entry suffix
EntryLines(lines) == {k \in 1..Len(lines) : EndsWith(lines[k], <<" (entry)">>)}

\* one line more than trace entries, numbered from 1, the head line first and
\* then the entries from the newest back to the oldest
NumberedFromHead(lines, trace) ==
    /\ Len(lines) = 1 + Len(trace)
    /\ \A k \in 1..Len(lines) : StartsWith(lines[k], <<"  ", ToString(k), ". ">>)
    /\ lines[1] = <<"  ", "1", ". ", "(cross)", " ">> \o DeniedText
    /\ \A k \in 1..Len(trace) :
          StartsWith(Drop(lines[k + 1], 3), toRelative(root, trace[Len(trace) - k + 1].file))

C31_WitnessNoEntry ==
    /\ Reported
    /\ Len(DeniedTrace) = 0
    /\ Len(RenderedTrace) = 1
    /\ EntryLines(RenderedTrace) = {}


\* a step in which a hook of the given family returns or throws
HookStep(hooks) == last = NoCall /\ last' # NoCall /\ last'.call.hook \in hooks

\* a step of the host's lifecycle: no resolveId or transform hook is involved
LifecycleStep == last' = last

\* C32: a specifiers resolveId hook and a transform hook leave the import graph
\* and the in-flight set as they were, whether they return or throw a denial;
\* the graph changes only in a files resolveId hook (record), at buildStart
\* (clear) and at handleHotUpdate (invalidate)
C32_GraphFrame ==
    [][/\ HookStep(SpecifierHooks \cup TransformHooks)
            => graph' = graph /\ resolving' = resolving
       /\ graph' # graph
            => \/ HookStep(FilesHooks)
               \/ LifecycleStep /\ graph' = clear(graph)
               \/ LifecycleStep /\ framework = "vite"
                                /\ \E file \in HotFiles : graph' = invalidate(graph, file)]_vars

\* a specifiers hook has thrown a denial while the graph holds an edge
C32_Witness ==
    /\ last.call.hook \in SpecifierHooks
    /\ last.outcome = "throw"
    /\ EdgeCount(graph) > 0

\* a transform hook has thrown a denial while the graph holds an edge
C32_WitnessTransform ==
    /\ last.call.hook \in TransformHooks
    /\ last.outcome = "throw"
    /\ EdgeCount(graph) > 0


\* the module a numbered line lists: its text after the number, without the
\* line number of the import and without the entry suffix
Listed(line) ==
    LET body == Drop(line, 3)
        stops == {n \in 1..Len(body) : body[n] \in {":", " (entry)"}}
    IN  IF stops = {} THEN body
        ELSE Take(body, (CHOOSE n \in stops : \A m \in stops : n <= m) - 1)

\* the file whose import or whose directive is denied
DeniedFile ==
    IF last.call.hook \in FilesHooks THEN last.call.resolved ELSE last.call.id

\* the texts under which a diagnostic lists the denied module
DeniedNames == {DeniedText, toRelative(root, DeniedFile)}

\* the numbered lines after the head that list the denied module again
Relisted(lines) == {k \in 2..Len(lines) : Listed(lines[k]) \in DeniedNames}

\* C33: every diagnostic lists the denied module once, as the head line 1, and
\* not again among the numbered trace lines; a denied module that has
\* importers is not the line marked as the entry
C33_DeniedListedOnce ==
    Reported =>
        LET lines == RenderedTrace
        IN  /\ lines[1] = <<"  ", "1", ". ", "(cross)", " ">> \o DeniedText
            /\ Relisted(lines) = {}
            /\ (DeniedFile \in DOMAIN graph /\ Len(graph[DeniedFile]) > 0)
                    => EntryLines(lines) \cap Relisted(lines) = {}

\* the diagnostics of the resolveId hooks list the denied module once
C33_ImportDenialListedOnce ==
    (Reported /\ last.call.hook \in SpecifierHooks \cup FilesHooks)
        => Relisted(RenderedTrace) = {}

\* the diagnostics of the transform hooks list the denied module again on
\* line 2, the first entry of buildTrace(id) being id itself
C33_DirectiveDenialRelisted ==
    (Reported /\ last.call.hook \in TransformHooks)
        => 2 \in Relisted(RenderedTrace)

\* a directive denial of a module without importers: line 2 lists the module
\* again and marks it as the entry
C33_DirectiveRelistedAsEntry ==
    /\ Reported
    /\ last.call.hook \in TransformHooks
    /\ DeniedFile \notin DOMAIN graph
    /\ Relisted(RenderedTrace) = {2}
    /\ EntryLines(RenderedTrace) = {2}

\* a directive denial of a module with importers whose trace is cut to one
\* entry: the module itself is the line marked as the entry
C33_DirectiveWithImporterAsEntry ==
    /\ Reported
    /\ last.call.hook \in TransformHooks
    /\ DeniedFile \in DOMAIN graph
    /\ Len(graph[DeniedFile]) > 0
    /\ EntryLines(RenderedTrace) \cap Relisted(RenderedTrace) # {}

============================================================================
